---- MODULE Spec2Model ----
(***************************************************************************)
(* Verification model of the GAMETRAFB traffic-intersection simulator.     *)
(*                                                                         *)
(* Units.  Engine time (GameEngine.update, signal timers, wait times) is   *)
(* in milliseconds, as in the source.  The simulation clock                *)
(* (SimulationLoop) works in seconds in the source; here it is counted in  *)
(* sixtieths of a second, so that the physics timestep 3.5/30 s is the     *)
(* integer 7 and the 50 ms frame cap is the integer 3.  Lengths are in     *)
(* millimetres, speeds in mm/s and accelerations in mm/s^2; probabilities  *)
(* and priority scores are in thousandths.  Floating-point rounding is     *)
(* not modelled.                                                           *)
(***************************************************************************)
EXTENDS Integers, Sequences, FiniteSets, TLC

VARIABLES
    \* GameEngine
    mode,             \* GameEngine.mode
    settings,         \* the active mode's settings (slider values)
    prevLightStates,  \* GameEngine.prevLightStates
    carManager,       \* per mode: CarManager (cars, nextId, lastSpawnTime)
    sensorSystem,     \* per mode: SensorSystem (totalCarsDetected, sensorData)
    statistics,       \* per mode: Statistics
    \* TrafficLightController of the fixed and of the adaptive mode
    fixedState,       \* fixedMode.trafficLights.fixedState
    fixedLights,      \* fixedMode.trafficLights.lights
    adaptiveState,    \* adaptiveMode.trafficLights.adaptiveState
    adaptiveLights,   \* adaptiveMode.trafficLights.lights
    \* Intersection
    network,          \* Intersection.network: the six roads
    \* SimulationLoop and the browser's frame-callback list
    isRunning,
    animationFrameId,
    rafQueue,         \* handles of the gameLoop callbacks the browser holds
    accumulator,
    totalSimulationTime,
    trafficDemand,
    TURN_PROBABILITIES,  \* CONFIG.TURN_PROBABILITIES (mutable global)
    \* observers
    fixedElapsed,     \* deltaTime summed since the fixed machine was initialised
    fixedExact,       \* every fixed transition so far fired with timer = duration
    physicsTicks,     \* updatePhysics calls of the clock since its last reset
    resetCleared      \* what the clock's latest reset() found on the roads

signalVars == <<fixedState, fixedLights, adaptiveState, adaptiveLights,
                fixedElapsed, fixedExact>>
engineVars == <<mode, settings, prevLightStates, carManager, sensorSystem,
                statistics>>
clockVars  == <<isRunning, animationFrameId, rafQueue, accumulator,
                totalSimulationTime, trafficDemand, TURN_PROBABILITIES,
                physicsTicks, resetCleared>>
vars == <<signalVars, engineVars, network, clockVars>>

Min(a, b) == IF a < b THEN a ELSE b
Max(a, b) == IF a > b THEN a ELSE b

(***************************************************************************)
(* CONFIG                                                                  *)
(***************************************************************************)
DIRECTIONS == {"north", "south", "east", "west"}
LIGHT_STATES == {"red", "yellow", "green"}
MODES == {"fixed", "adaptive"}
PAIRS == {"WE", "NS"}

\* Fixed-mode all-red clearance (ms) and adaptive all-red clearance (ms).
FixedClearance == 3000
AdaptiveClearance == 2000

\* Configured durations the model is run with (ms); the engine takes them
\* from its settings object on every update.
GreenDurations == {2000, 3000}
YellowDurations == {1000}
\* deltaTime values handed to update (ms).
DeltaTimes == {500, 1000, 1500}

\* No guard of the controller compares a phase timer with more than the
\* largest duration; timers saturate at TimerCap, which is above all of them.
TimerCap == 3500
\* The elapsed-time observer saturates above the longest cycle.
ElapsedCap == 15000

(***************************************************************************)
(* TrafficLightController                                                  *)
(***************************************************************************)
AllRed == [d \in DIRECTIONS |-> "red"]

\* GameEngine.prevLightStates before the first update (undefined).
NoLightStates == [d \in DIRECTIONS |-> "undefined"]

PairLights(pair, colour) ==
    IF pair = "NS"
    THEN [AllRed EXCEPT !["north"] = colour, !["south"] = colour]
    ELSE IF pair = "WE"
    THEN [AllRed EXCEPT !["west"] = colour, !["east"] = colour]
    ELSE AllRed

\* Variant of setFixedLightState without the initial setAllLightsRed: each
\* pair keeps the colour it was last given (yellow, once a cycle has run).
SetFixedLightStateNoReset(phase) ==
    [d \in DIRECTIONS |->
        IF d \in {"north", "south"}
        THEN (IF phase = 0 THEN "green" ELSE "yellow")
        ELSE (IF phase = 3 THEN "green" ELSE "yellow")]

\* setFixedLightState: all red, then the phase's pair.
SetFixedLightState(phase) ==
    CASE phase = 0 -> PairLights("NS", "green")
      [] phase = 1 -> PairLights("NS", "yellow")
      [] phase = 3 -> PairLights("WE", "green")
      [] phase = 4 -> PairLights("WE", "yellow")
      [] OTHER     -> AllRed

InitializeFixedMode == [currentPhase |-> 0, phaseTimer |-> 0, isActive |-> TRUE]

\* Variant of the per-phase durations with the short all-red clearance.
FixedPhaseDurationShortClearance(phase, s) ==
    CASE phase \in {0, 3} -> s.GREEN_DURATION
      [] phase \in {1, 4} -> s.YELLOW_DURATION
      [] OTHER            -> AdaptiveClearance

\* The duration updateFixedMode compares the timer with, per phase.
FixedPhaseDuration(phase, s) ==
    CASE phase \in {0, 3} -> s.GREEN_DURATION
      [] phase \in {1, 4} -> s.YELLOW_DURATION
      [] OTHER            -> FixedClearance

\* Variant of advanceFixedPhase that steps over the phase after the next.
AdvanceFixedPhaseByTwo(c) ==
    LET f == [c.st EXCEPT !.currentPhase = (c.st.currentPhase + 2) % 6,
                          !.phaseTimer = 0]
    IN  [st |-> f, lights |-> SetFixedLightState(f.currentPhase)]

\* Variant of advanceFixedPhase without the call of setFixedLightState.
AdvanceFixedPhaseKeepLights(c) ==
    [st |-> [c.st EXCEPT !.currentPhase = (c.st.currentPhase + 1) % 6,
                         !.phaseTimer = 0],
     lights |-> c.lights]

\* A controller is the pair of its phase machine (st) and its lights.
AdvanceFixedPhase(c) ==
    LET f == [c.st EXCEPT !.currentPhase = (c.st.currentPhase + 1) % 6,
                          !.phaseTimer = 0]
    IN  [st |-> f, lights |-> SetFixedLightState(f.currentPhase)]

UpdateFixedMode(c, deltaTime, s) ==
    LET t  == Min(c.st.phaseTimer + deltaTime, TimerCap)
        c1 == [c EXCEPT !.st.phaseTimer = t]
    IN  IF t >= FixedPhaseDuration(c.st.currentPhase, s)
        THEN AdvanceFixedPhase(c1)
        ELSE c1

\* initializeFixedMode, as a controller.
FixedController0 ==
    [st |-> InitializeFixedMode, lights |-> SetFixedLightState(0)]

\* update(deltaTime, FIXED, settings)
UpdateFixed(c, deltaTime, s) ==
    UpdateFixedMode(IF c.st.isActive THEN c ELSE FixedController0, deltaTime, s)

InitializeAdaptiveMode ==
    [currentPair |-> "none", currentPhase |-> "red", phaseTimer |-> 0,
     isActive |-> TRUE, priorityScores |-> [WE |-> 0, NS |-> 0],
     firstCarTriggered |-> FALSE]

AdaptiveController0 == [st |-> InitializeAdaptiveMode, lights |-> AllRed]

\* Variant of getHighestPriorityPair that needs both scores positive.
GetHighestPriorityPairBothPositive(scores) ==
    IF scores.WE > scores.NS /\ scores.NS > 0 THEN "WE"
    ELSE IF scores.NS > scores.WE /\ scores.WE > 0 THEN "NS"
    ELSE "none"

GetHighestPriorityPair(scores) ==
    IF scores.WE > scores.NS /\ scores.WE > 0 THEN "WE"
    ELSE IF scores.NS > scores.WE /\ scores.NS > 0 THEN "NS"
    ELSE "none"

OtherPair(pair) == IF pair = "WE" THEN "NS" ELSE "WE"

\* Variant of shouldSwitchInAdaptive with >= in both comparisons.
ShouldSwitchInAdaptiveAtThreshold(as) ==
    LET currentScore == as.priorityScores[as.currentPair]
        otherScore   == as.priorityScores[OtherPair(as.currentPair)]
    IN  2 * otherScore >= 3 * currentScore /\ otherScore >= 10000

\* otherScore > currentScore * 1.5 && otherScore > 10 (scores in thousandths)
ShouldSwitchInAdaptive(as) ==
    LET currentScore == as.priorityScores[as.currentPair]
        otherScore   == as.priorityScores[OtherPair(as.currentPair)]
    IN  2 * otherScore > 3 * currentScore /\ otherScore > 10000

\* setAdaptiveLightState: all red, then the current pair in the phase's colour.
SetAdaptiveLightState(as) == PairLights(as.currentPair, as.currentPhase)

StartAdaptiveGreen(c) ==
    LET a == [c.st EXCEPT !.currentPhase = "green", !.phaseTimer = 0]
    IN  [st |-> a, lights |-> SetAdaptiveLightState(a)]

StartAdaptiveYellow(c) ==
    LET a == [c.st EXCEPT !.currentPhase = "yellow", !.phaseTimer = 0]
    IN  [st |-> a, lights |-> SetAdaptiveLightState(a)]

\* Variant of startAdaptiveRed that lets the phase timer run on.
StartAdaptiveRedKeepTimer(c) ==
    [st |-> [c.st EXCEPT !.currentPhase = "red"], lights |-> AllRed]

\* Variant of startAdaptiveRed without the call of setAllLightsRed.
StartAdaptiveRedKeepLights(c) ==
    [st |-> [c.st EXCEPT !.currentPhase = "red", !.phaseTimer = 0],
     lights |-> c.lights]

StartAdaptiveRed(c) ==
    [st |-> [c.st EXCEPT !.currentPhase = "red", !.phaseTimer = 0],
     lights |-> AllRed]

SwitchToAdaptivePair(c, pair) ==
    StartAdaptiveGreen([c EXCEPT !.st.currentPair = pair])

UpdateAdaptiveMode(c, deltaTime, s) ==
    LET t  == Min(c.st.phaseTimer + deltaTime, TimerCap)
        c1 == [c EXCEPT !.st.phaseTimer = t]
        hp == GetHighestPriorityPair(c1.st.priorityScores)
    IN  IF c1.st.currentPair = "none"
        THEN IF hp # "none" /\ c1.st.priorityScores[hp] > 0
             THEN SwitchToAdaptivePair(c1, hp)
             ELSE c1
        ELSE CASE c1.st.currentPhase = "green" ->
                    IF ShouldSwitchInAdaptive(c1.st) THEN StartAdaptiveYellow(c1) ELSE c1
               [] c1.st.currentPhase = "yellow" ->
                    IF t >= s.YELLOW_DURATION THEN StartAdaptiveRed(c1) ELSE c1
               [] OTHER ->
                    IF t >= AdaptiveClearance
                    THEN IF hp # "none" /\ hp # c1.st.currentPair
                         THEN SwitchToAdaptivePair(c1, hp)
                         ELSE IF hp = c1.st.currentPair
                         THEN StartAdaptiveGreen(c1)
                         ELSE c1
                    ELSE c1

\* update(deltaTime, ADAPTIVE, settings)
UpdateAdaptive(c, deltaTime, s) ==
    UpdateAdaptiveMode(IF c.st.isActive THEN c ELSE AdaptiveController0, deltaTime, s)

\* One approach's term of calculatePairScore, in thousandths; an approach
\* missing from the sensor data (present = FALSE) counts as all zeros.
ApproachScore(sensorData, d) ==
    IF ~sensorData[d].present THEN 0
    ELSE sensorData[d].carsWaiting * sensorData[d].waitTime
         + 1000 * sensorData[d].totalCarsDetected

CalculatePairScore(pair, sensorData) ==
    IF pair = "WE"
    THEN ApproachScore(sensorData, "west") + ApproachScore(sensorData, "east")
    ELSE ApproachScore(sensorData, "north") + ApproachScore(sensorData, "south")

\* updateAdaptiveLogic(sensorData) on the adaptive controller.
UpdateAdaptiveLogic(as, sensorData) ==
    IF ~as.isActive THEN as
    ELSE [as EXCEPT !.priorityScores =
            [WE |-> CalculatePairScore("WE", sensorData),
             NS |-> CalculatePairScore("NS", sensorData)]]


(***************************************************************************)
(* State after construction of the other components                        *)
(***************************************************************************)
\* CarManager constructor.
CarManager0 == [cars |-> <<>>, nextId |-> 1, lastSpawnTime |-> 0]

\* SensorSystem.initializeSensors.
SensorSystem0 ==
    [totalCarsDetected |-> [d \in DIRECTIONS |-> 0],
     waitingCars       |-> [d \in DIRECTIONS |-> 0],
     sensorData        |-> [d \in DIRECTIONS |->
                              [present |-> TRUE, carsWaiting |-> 0,
                               waitTime |-> 0, totalCarsDetected |-> 0]]]

\* Statistics.reset.
Statistics0 ==
    [totalCarsPassed |-> 0, totalWaitTime |-> 0, currentCars |-> 0,
     waitTimes |-> <<>>]

\* Road constructor: no vehicles, empty inflow buffer.
Road0 == [veh |-> <<>>, inVehBuffer |-> 0]

\* Intersection.initializeRoads: roads 0..5.
Network0 == [r \in 0..5 |-> Road0]

\* CONFIG.TURN_PROBABILITIES, in thousandths.
TurnProbabilities0 == [STRAIGHT |-> 600, RIGHT |-> 250, LEFT |-> 150]

\* The slider settings the runs draw from, and the shortest of them.
SettingsChoices == [GREEN_DURATION : GreenDurations, YELLOW_DURATION : YellowDurations]
ShortSettings == [GREEN_DURATION |-> 2000, YELLOW_DURATION |-> 1000]

\* GameEngine constructor and initialize(), for a given starting mode and
\* given slider settings of that mode.
EngineInit(m, s) ==
    /\ mode = m
    /\ settings = s
    /\ prevLightStates = NoLightStates
    /\ carManager = [x \in MODES |-> CarManager0]
    /\ sensorSystem = [x \in MODES |-> SensorSystem0]
    /\ statistics = [x \in MODES |-> Statistics0]

\* The two TrafficLightControllers after initialize(mode, settings).
SignalInit ==
    /\ fixedState = FixedController0.st
    /\ fixedLights = FixedController0.lights
    /\ adaptiveState = AdaptiveController0.st
    /\ adaptiveLights = AdaptiveController0.lights
    /\ fixedElapsed = 0
    /\ fixedExact = TRUE

\* SimulationLoop constructor; no frame callback requested yet.
ClockInit ==
    /\ isRunning = FALSE
    /\ animationFrameId = 0
    /\ rafQueue = {}
    /\ accumulator = 0
    /\ totalSimulationTime = 0
    /\ trafficDemand = <<>>
    /\ TURN_PROBABILITIES = TurnProbabilities0
    /\ physicsTicks = 0
    /\ resetCleared = "never"

(***************************************************************************)
(* The signal controller on its own: update, scoring and reset of the      *)
(* controller of the mode it was initialised with.                         *)
(***************************************************************************)
FixedCtl == [st |-> fixedState, lights |-> fixedLights]
AdaptiveCtl == [st |-> adaptiveState, lights |-> adaptiveLights]

\* trafficLights.update(deltaTime, mode, settings) of the active mode.
LightsUpdate(deltaTime) ==
    /\ IF mode = "fixed"
       THEN LET c == UpdateFixed(FixedCtl, deltaTime, settings)
                fires == c.st.currentPhase # fixedState.currentPhase
                t == fixedState.phaseTimer + deltaTime
            IN  /\ fixedState' = c.st
                /\ fixedLights' = c.lights
                /\ fixedElapsed' = Min(fixedElapsed + deltaTime, ElapsedCap)
                /\ fixedExact' = (fixedExact /\
                      (fires => t = FixedPhaseDuration(fixedState.currentPhase, settings)))
                /\ UNCHANGED <<adaptiveState, adaptiveLights>>
       ELSE LET c == UpdateAdaptive(AdaptiveCtl, deltaTime, settings)
            IN  /\ adaptiveState' = c.st
                /\ adaptiveLights' = c.lights
                /\ UNCHANGED <<fixedState, fixedLights, fixedElapsed, fixedExact>>
    /\ UNCHANGED <<engineVars, network, clockVars>>

\* Sensor readings handed to updateAdaptiveLogic: per approach either no
\* entry or one of a few (carsWaiting, waitTime ms, totalCarsDetected).
SensorSamples ==
    { [present |-> FALSE, carsWaiting |-> 0, waitTime |-> 0, totalCarsDetected |-> 0],
      [present |-> TRUE, carsWaiting |-> 0, waitTime |-> 0, totalCarsDetected |-> 1],
      [present |-> TRUE, carsWaiting |-> 2, waitTime |-> 6000, totalCarsDetected |-> 1] }

\* trafficLights.updateAdaptiveLogic(sensorData), called in adaptive mode.
AdaptiveLogic(sensorData) ==
    /\ mode = "adaptive"
    /\ adaptiveState' = UpdateAdaptiveLogic(adaptiveState, sensorData)
    /\ UNCHANGED <<fixedState, fixedLights, adaptiveLights, fixedElapsed,
                   fixedExact, engineVars, network, clockVars>>

\* trafficLights.reset() of the active mode's controller:
\* isActive = false, then initialize<Mode>Mode.
LightsReset ==
    /\ IF mode = "fixed"
       THEN /\ fixedState' = FixedController0.st
            /\ fixedLights' = FixedController0.lights
            /\ fixedElapsed' = 0
            /\ fixedExact' = TRUE
            /\ UNCHANGED <<adaptiveState, adaptiveLights>>
       ELSE /\ adaptiveState' = AdaptiveController0.st
            /\ adaptiveLights' = AdaptiveController0.lights
            /\ UNCHANGED <<fixedState, fixedLights, fixedElapsed, fixedExact>>
    /\ UNCHANGED <<engineVars, network, clockVars>>

InitSignal ==
    /\ \E m \in MODES, s \in SettingsChoices : EngineInit(m, s)
    /\ SignalInit
    /\ network = Network0
    /\ ClockInit

NextSignal ==
    \/ \E deltaTime \in DeltaTimes : LightsUpdate(deltaTime)
    \/ \E sensorData \in [DIRECTIONS -> SensorSamples] : AdaptiveLogic(sensorData)
    \/ LightsReset

SpecSignal == InitSignal /\ [][NextSignal]_vars

(***************************************************************************)
(* Signal controller: properties                                           *)
(***************************************************************************)
\* Length of one full fixed cycle with the configured durations (ms).
CycleLen(s) == 2 * (s.GREEN_DURATION + s.YELLOW_DURATION + FixedClearance)

NSGreenEWRed ==
    /\ fixedLights["north"] = "green" /\ fixedLights["south"] = "green"
    /\ fixedLights["east"] = "red" /\ fixedLights["west"] = "red"

\* C1 as stated: in fixed mode, once the deltaTime values handed to update
\* since phase 0 / timer 0 sum to GREEN+YELLOW+3000+GREEN+YELLOW+3000, the
\* controller is in phase 0 with north and south green, east and west red.
C1_CycleClosure ==
    (mode = "fixed" /\ fixedElapsed = CycleLen(settings))
        => (fixedState.currentPhase = 0 /\ NSGreenEWRed)

\* C1, amended: the cycle closes after exactly that sum when every phase
\* transition on the way fired on an update that brought the phase timer
\* exactly to the phase's duration; the timer restarts from 0 at each
\* transition, so any overshoot is dropped and lengthens the cycle.
C1_CycleClosureExact ==
    (mode = "fixed" /\ fixedExact /\ fixedElapsed = CycleLen(settings))
        => (fixedState.currentPhase = 0 /\ fixedState.phaseTimer = 0 /\ NSGreenEWRed)

\* A full cycle without overshoot has just been completed.
C1_Witness ==
    /\ mode = "fixed" /\ fixedExact /\ fixedElapsed = CycleLen(settings)
    /\ fixedState.currentPhase = 0

\* C2: an adaptive update in the idle state keeps the controller idle with
\* all four lights red while both scores are 0, and puts it in NS green
\* (north and south green, east and west red) when NS > 0 and WE = 0.
C2_AdaptiveTrigger ==
    [][ ( /\ mode = "adaptive"
          /\ adaptiveState.currentPair = "none"
          /\ \E deltaTime \in DeltaTimes : LightsUpdate(deltaTime) )
        => /\ (adaptiveState.priorityScores = [WE |-> 0, NS |-> 0])
                => (adaptiveState'.currentPair = "none" /\ adaptiveLights' = AllRed)
           /\ (adaptiveState.priorityScores.NS > 0 /\ adaptiveState.priorityScores.WE = 0)
                => /\ adaptiveState'.currentPair = "NS"
                   /\ adaptiveState'.currentPhase = "green"
                   /\ adaptiveLights' = PairLights("NS", "green") ]_vars

\* The controller has just left idle for NS green on a positive NS score.
C2_Witness ==
    /\ mode = "adaptive"
    /\ adaptiveState.currentPair = "NS" /\ adaptiveState.currentPhase = "green"
    /\ adaptiveState.phaseTimer = 0
    /\ adaptiveState.priorityScores.NS > 0 /\ adaptiveState.priorityScores.WE = 0
    /\ adaptiveLights = PairLights("NS", "green")

\* The pair showing green or yellow in a set of lights ("none": all red on
\* that pair).
NonRed(lights, pair) ==
    IF pair = "NS"
    THEN lights["north"] # "red" \/ lights["south"] # "red"
    ELSE lights["east"] # "red" \/ lights["west"] # "red"

\* C18: in the fixed and in the adaptive controller the NS pair and the WE
\* pair are never both non-red: while north or south is green or yellow,
\* east and west are red, and the other way round.
C18_PairsExclusive ==
    \A lights \in {fixedLights, adaptiveLights} :
        ~(NonRed(lights, "NS") /\ NonRed(lights, "WE"))

\* The adaptive controller has taken the green from NS and given it to WE,
\* and WE is now on yellow with north and south red.
C18_Witness ==
    /\ mode = "adaptive"
    /\ adaptiveState.currentPair = "WE" /\ adaptiveState.currentPhase = "yellow"
    /\ adaptiveLights = PairLights("WE", "yellow")
    /\ NonRed(adaptiveLights, "WE") /\ ~NonRed(adaptiveLights, "NS")

\* The lights and the phase timer of the active mode's controller, the
\* all-red clearance it waits for, and whether it is the adaptive
\* controller in its idle state (no pair yet).
ActiveLights == IF mode = "fixed" THEN fixedLights ELSE adaptiveLights
ActiveTimer ==
    IF mode = "fixed" THEN fixedState.phaseTimer ELSE adaptiveState.phaseTimer
ActiveClearance == IF mode = "fixed" THEN 3000 ELSE 2000
AdaptiveIdle == mode = "adaptive" /\ adaptiveState.currentPair = "none"

\* C39: adaptiveState.firstCarTriggered is false while the adaptive
\* controller is idle and true once it has left idle, until the next reset:
\* in every state the flag is true exactly when currentPair is a pair.
C39_FlagMarksFirstTrigger ==
    adaptiveState.firstCarTriggered <=> adaptiveState.currentPair # "none"

\* The adaptive controller has left idle and come as far as the red phase
\* of its pair, and the flag is still false.
C39_FlagStillFalse ==
    /\ mode = "adaptive" /\ adaptiveState.currentPair # "none"
    /\ adaptiveState.currentPhase = "red"
    /\ ~adaptiveState.firstCarTriggered

\* The pair that shows the colour, "none" if no light does.
PairShowing(lights, colour) ==
    IF lights["north"] = colour \/ lights["south"] = colour THEN "NS"
    ELSE IF lights["east"] = colour \/ lights["west"] = colour THEN "WE"
    ELSE "none"

\* One step seen from the lights: (1) a green starts only from all red, on
\* an update that brings the phase timer to the clearance or beyond; (2) the
\* phase timer measures the all-red time: it restarts from 0 when a yellow
\* ends, which leaves all four lights red, and every update that keeps them
\* red adds its deltaTime; (3) a green ends in the same pair's yellow.
\* The adaptive controller's first green out of idle follows no yellow.
ClearanceStep ==
    LET green == PairShowing(ActiveLights, "green")
        yellow == PairShowing(ActiveLights, "yellow")
    IN  /\ ( /\ PairShowing(ActiveLights', "green") \notin {"none", green}
             /\ ~AdaptiveIdle )
            => /\ ActiveLights = AllRed
               /\ \E deltaTime \in DeltaTimes :
                     /\ LightsUpdate(deltaTime)
                     /\ ActiveTimer + deltaTime >= ActiveClearance
        /\ (yellow # "none" /\ PairShowing(ActiveLights', "yellow") # yellow)
            => (ActiveLights' = AllRed /\ ActiveTimer' = 0)
        /\ (ActiveLights = AllRed /\ ActiveLights' = AllRed /\ ~AdaptiveIdle)
            => \E deltaTime \in DeltaTimes :
                  ActiveTimer' = Min(ActiveTimer + deltaTime, TimerCap)
        /\ (green # "none" /\ PairShowing(ActiveLights', "green") # green)
            => PairShowing(ActiveLights', "yellow") = green

\* C19 as stated: in every step of the controller a green follows only an
\* all-red period of at least 3000 ms (fixed) or 2000 ms (adaptive) of
\* accumulated deltaTime that began when a yellow ended, and every green is
\* followed by the same pair's yellow before any red.
C19_Clearance == [][ClearanceStep]_vars

\* C19, amended: the same, for the steps that are updates of the controller.
\* reset() is outside it: it puts the fixed controller straight into NS
\* green and the adaptive controller into idle all-red, whatever was showing.
C19_ClearanceBetweenResets ==
    [][(\E deltaTime \in DeltaTimes : LightsUpdate(deltaTime)) => ClearanceStep]_vars

\* WE green has just started in fixed mode, after NS green, NS yellow and
\* the all-red clearance.
C19_Witness ==
    /\ mode = "fixed"
    /\ fixedState.currentPhase = 3 /\ fixedState.phaseTimer = 0
    /\ fixedLights = PairLights("WE", "green")

\* One step seen from the fixed controller's phase index: it changes only
\* to the next index modulo 6, only on an update that brings the phase
\* timer to the duration of the phase or beyond, and the timer restarts
\* from 0; an update that brings the timer that far changes it.
PhaseStep ==
    LET phase == fixedState.currentPhase
        required == CASE phase \in {0, 3} -> settings.GREEN_DURATION
                      [] phase \in {1, 4} -> settings.YELLOW_DURATION
                      [] phase \in {2, 5} -> 3000
    IN  /\ fixedState'.currentPhase # phase
            => /\ fixedState'.currentPhase = (phase + 1) % 6
               /\ fixedState'.phaseTimer = 0
               /\ \E deltaTime \in DeltaTimes :
                     /\ LightsUpdate(deltaTime)
                     /\ fixedState.phaseTimer + deltaTime >= required
        /\ \A deltaTime \in DeltaTimes :
              (LightsUpdate(deltaTime) /\ fixedState.phaseTimer + deltaTime >= required)
                  => fixedState'.currentPhase = (phase + 1) % 6

\* C20 as stated: in fixed mode the phase index changes only by +1 modulo 6,
\* at most once per update and only on an update after which the phase timer
\* is at least the phase's duration (GREEN_DURATION for 0 and 3,
\* YELLOW_DURATION for 1 and 4, 3000 ms for 2 and 5), and it does change on
\* every such update.
C20_PhaseAdvance == [][mode = "fixed" => PhaseStep]_vars

\* C20, amended: the same for the steps that are updates of the
\* controller; reset() sets the index to 0 from any phase.
C20_PhaseAdvanceOnUpdate ==
    [][(mode = "fixed" /\ \E deltaTime \in DeltaTimes : LightsUpdate(deltaTime))
          => PhaseStep]_vars

\* The fixed controller has just moved from WE yellow into the second
\* all-red clearance.
C20_Witness ==
    /\ mode = "fixed"
    /\ fixedState.currentPhase = 5 /\ fixedState.phaseTimer = 0
    /\ fixedLights = AllRed

\* C21: the fixed controller's four colours are a function of its phase
\* index (0: north and south green; 1: north and south yellow; 3: west and
\* east green; 4: west and east yellow; 2 and 5: all red; every approach not
\* named red), each colour is red, yellow or green, and right after every
\* change of the phase index the phase timer is 0.
C21_ColoursFromPhase ==
    /\ [](/\ \A d \in DIRECTIONS : fixedLights[d] \in LIGHT_STATES
          /\ fixedState.currentPhase \in 0..5
          /\ \A d \in {"north", "south"} :
                fixedLights[d] = CASE fixedState.currentPhase = 0 -> "green"
                                   [] fixedState.currentPhase = 1 -> "yellow"
                                   [] OTHER -> "red"
          /\ \A d \in {"west", "east"} :
                fixedLights[d] = CASE fixedState.currentPhase = 3 -> "green"
                                   [] fixedState.currentPhase = 4 -> "yellow"
                                   [] OTHER -> "red")
    /\ [][fixedState'.currentPhase # fixedState.currentPhase
             => fixedState'.phaseTimer = 0]_vars

\* The fixed controller has just moved from WE green to WE yellow.
C21_Witness ==
    /\ mode = "fixed"
    /\ fixedState.currentPhase = 4 /\ fixedState.phaseTimer = 0
    /\ fixedLights = PairLights("WE", "yellow")

(***************************************************************************)
(* The adaptive controller with sensor readings whose pair scores meet the *)
(* thresholds of its guards: equal scores, a score of exactly 10, a score  *)
(* of exactly 1.5 times the other.                                         *)
(***************************************************************************)
\* Per approach: no entry (score 0), or scores 5, 6 and 9.
ScoreSamples ==
    { [present |-> FALSE, carsWaiting |-> 0, waitTime |-> 0, totalCarsDetected |-> 0],
      [present |-> TRUE, carsWaiting |-> 1, waitTime |-> 4000, totalCarsDetected |-> 1],
      [present |-> TRUE, carsWaiting |-> 1, waitTime |-> 5000, totalCarsDetected |-> 1],
      [present |-> TRUE, carsWaiting |-> 2, waitTime |-> 4000, totalCarsDetected |-> 1] }

InitScores ==
    /\ EngineInit("adaptive", ShortSettings)
    /\ SignalInit
    /\ network = Network0
    /\ ClockInit

NextScores ==
    \/ \E deltaTime \in DeltaTimes : LightsUpdate(deltaTime)
    \/ \E sensorData \in [DIRECTIONS -> ScoreSamples] : AdaptiveLogic(sensorData)
    \/ LightsReset

SpecScores == InitScores /\ [][NextScores]_vars

\* The adaptive controller's step is an update (of any deltaTime).
AdaptiveUpdateStep ==
    mode = "adaptive" /\ \E deltaTime \in DeltaTimes : LightsUpdate(deltaTime)

\* C22: in adaptive green for pair P an update moves the controller to
\* yellow for P exactly when the other pair's score is more than 1.5 times
\* P's score and more than 10; otherwise green for P goes on, whatever the
\* phase timer holds.
C22_GreenUntilOutscored ==
    [][ ( /\ AdaptiveUpdateStep
          /\ adaptiveState.currentPair # "none"
          /\ adaptiveState.currentPhase = "green" )
        => LET P == adaptiveState.currentPair
               own == adaptiveState.priorityScores[P]
               other == adaptiveState.priorityScores[IF P = "WE" THEN "NS" ELSE "WE"]
           IN  /\ adaptiveState'.currentPair = P
               /\ IF 2 * other > 3 * own /\ other > 10000
                  THEN /\ adaptiveState'.currentPhase = "yellow"
                       /\ adaptiveLights' = PairLights(P, "yellow")
                  ELSE /\ adaptiveState'.currentPhase = "green"
                       /\ adaptiveLights' = PairLights(P, "green") ]_vars

\* The controller has stayed in NS green past every duration although WE
\* has the higher score: exactly 1.5 times NS's, which is not enough.
C22_Witness ==
    /\ mode = "adaptive"
    /\ adaptiveState.currentPair = "NS" /\ adaptiveState.currentPhase = "green"
    /\ adaptiveState.phaseTimer = TimerCap
    /\ adaptiveState.priorityScores = [WE |-> 15000, NS |-> 10000]

\* C23: in adaptive yellow for pair P an update that leaves the phase timer
\* below YELLOW_DURATION keeps yellow for P, and the first update that
\* brings the timer to YELLOW_DURATION or beyond enters red: all four lights
\* red, timer 0, current pair still P; the scores play no part.
C23_YellowForItsDuration ==
    [][ \A deltaTime \in DeltaTimes :
          ( /\ mode = "adaptive" /\ LightsUpdate(deltaTime)
            /\ adaptiveState.currentPair # "none"
            /\ adaptiveState.currentPhase = "yellow" )
          => /\ adaptiveState'.currentPair = adaptiveState.currentPair
             /\ IF adaptiveState.phaseTimer + deltaTime >= settings.YELLOW_DURATION
                THEN /\ adaptiveState'.currentPhase = "red"
                     /\ adaptiveState'.phaseTimer = 0
                     /\ adaptiveLights' = AllRed
                ELSE /\ adaptiveState'.currentPhase = "yellow"
                     /\ adaptiveState'.phaseTimer = adaptiveState.phaseTimer + deltaTime
                     /\ adaptiveLights' = PairLights(adaptiveState.currentPair, "yellow") ]_vars

\* The yellow of WE has run out and the controller has just entered red,
\* with the scores still in favour of NS.
C23_Witness ==
    /\ mode = "adaptive"
    /\ adaptiveState.currentPair = "WE" /\ adaptiveState.currentPhase = "red"
    /\ adaptiveState.phaseTimer = 0
    /\ adaptiveLights = AllRed
    /\ adaptiveState.priorityScores.NS > adaptiveState.priorityScores.WE

\* C24: in adaptive red after pair P, the first update that brings the
\* phase timer to 2000 ms or beyond enters green, whatever the two scores
\* are: for the pair with the higher score, and with all-red ended.
C24_GreenAfterClearance ==
    [][ \A deltaTime \in DeltaTimes :
          ( /\ mode = "adaptive" /\ LightsUpdate(deltaTime)
            /\ adaptiveState.currentPair # "none"
            /\ adaptiveState.currentPhase = "red"
            /\ adaptiveState.phaseTimer + deltaTime >= 2000 )
          => /\ adaptiveState'.currentPhase = "green"
             /\ adaptiveState'.phaseTimer = 0
             /\ adaptiveState'.currentPair \in PAIRS
             /\ adaptiveLights' = PairLights(adaptiveState'.currentPair, "green")
             /\ \A P \in PAIRS :
                   adaptiveState.priorityScores[P]
                       > adaptiveState.priorityScores[IF P = "WE" THEN "NS" ELSE "WE"]
                   => adaptiveState'.currentPair = P ]_vars

\* The clearance is long over and the controller is still in all-red, with
\* equal positive scores on both pairs.
C24_StuckInRed ==
    /\ mode = "adaptive"
    /\ adaptiveState.currentPair # "none" /\ adaptiveState.currentPhase = "red"
    /\ adaptiveState.phaseTimer = TimerCap
    /\ adaptiveLights = AllRed
    /\ adaptiveState.priorityScores.WE = adaptiveState.priorityScores.NS
    /\ adaptiveState.priorityScores.WE > 0

\* C25: an update of the idle adaptive controller with a positive score on
\* some pair leaves idle and gives green to a pair whose score is the
\* highest, also when both scores are equal and positive.
C25_IdleLeftOnPositiveScore ==
    [][ ( /\ AdaptiveUpdateStep
          /\ adaptiveState.currentPair = "none"
          /\ \E P \in PAIRS : adaptiveState.priorityScores[P] > 0 )
        => /\ adaptiveState'.currentPair \in PAIRS
           /\ adaptiveState'.currentPhase = "green"
           /\ adaptiveLights' = PairLights(adaptiveState'.currentPair, "green")
           /\ \A P \in PAIRS :
                 adaptiveState.priorityScores[adaptiveState'.currentPair]
                     >= adaptiveState.priorityScores[P] ]_vars

\* The controller is idle, has been updated, and both pairs have the same
\* positive score.
C25_IdleWithTie ==
    /\ mode = "adaptive"
    /\ adaptiveState.currentPair = "none"
    /\ adaptiveState.phaseTimer = TimerCap
    /\ adaptiveLights = AllRed
    /\ adaptiveState.priorityScores = [WE |-> 10000, NS |-> 10000]

(***************************************************************************)
(* Road physics (roadSystem.js, IDMModel, MOBILModel)                      *)
(*                                                                         *)
(* A road is [veh, inVehBuffer]; veh is the road's vehicle array in array  *)
(* order.  A vehicle is a record with the fields the physics reads and     *)
(* writes: id, lane, u, speed, acc, route, dt_afterLC,                     *)
(* mandatoryLaneChange, tacticalLaneChange and the driverfactor of its     *)
(* IDMModel.  The optical fields v and dvdt only feed the rendering.       *)
(***************************************************************************)
PhysicsDt == 7             \* CONFIG.PHYSICS.DT = 3.5/30 s, in sixtieths of a second
RoadLen == 200000          \* createRoad: 200 m
NLanes == 2                \* CONFIG.N_LANES_MAIN = CONFIG.N_LANES_SEC
CAR_LENGTH == 5000         \* CONFIG.CAR_LENGTH and createVehicle's len
ExitMargin == 10000        \* updateSpeedPositions keeps u <= roadLen + 10
DT_LC == 240               \* dt_LC = 4.0 s
DtAfterLCInit == 600       \* dt_afterLC = 10.0 s at creation
FreeGap == 1000000         \* the 1000 m gap used when there is no leader
MinGap == 100              \* calcAccelerations: Math.max(0.1, gap)
AccMin == -6000            \* calcAccelerations clamps acc to [-6, 3]
AccMax == 3000
TurningZone == 50000       \* evaluateLaneChangeNeed: roadLen - 50
LANE_CHANGE_DISTANCE == 50000
USourceRight == 104160     \* CONFIG.GEOMETRIC.U20_SOURCE
LEN_RIGHT == 11780         \* CONFIG.LEN_RIGHT
LEN_LEFT == 17670          \* CONFIG.LEN_LEFT
SpawnU == 5000             \* createVehicle: u = 5.0
SpawnZone == 15000         \* canSpawnVehicle: 15 m
SpeedInit == 15000         \* Road.speedInit
BufferUnit == 216000       \* one vehicle, in the unit flow * PhysicsDt adds up in

\* IDMModel constructor defaults, which are also the values Car passes.
IDM == [v0 |-> 15000, T |-> 1000, s0 |-> 2000, a |-> 2000, b |-> 2000,
        bmax |-> 4000, speedlimit |-> 50000, speedmax |-> 60000]

\* The four MOBILModel instances of a Road (politeness in thousandths).
LCModelMandatoryRight == [p |-> 100, aThr |-> 200, biasRight |-> 500, bSafe |-> 4000]
LCModelMandatoryLeft  == [p |-> 100, aThr |-> 200, biasRight |-> -500, bSafe |-> 4000]
LCModelTactical       == [p |-> 300, aThr |-> 300, biasRight |-> 200, bSafe |-> 4000]
LCModelNormal         == [p |-> 500, aThr |-> 500, biasRight |-> 100, bSafe |-> 4000]

\* CONFIG.ROUTES by entrance road: straight, right, left.
Routes ==
    [r \in {0, 1, 2, 4} |->
        CASE r = 0 -> << <<0>>, <<0, 5>>, <<0, 3>> >>
          [] r = 1 -> << <<1>>, <<1, 3>>, <<1, 5>> >>
          [] r = 2 -> << <<2, 3>>, <<2, 0>>, <<2, 1>> >>
          [] r = 4 -> << <<4, 5>>, <<4, 1>>, <<4, 0>> >>]

\* setupAlternativeTrajectories: per road the right-turn then the left-turn
\* trajectory (none on the exit roads 3 and 5).
TrajAlt(r) ==
    LET right(to) == [roadID |-> to, umin |-> USourceRight,
                      umax |-> USourceRight + LEN_RIGHT,
                      laneMin |-> NLanes - 1, laneMax |-> NLanes - 1,
                      turnType |-> "right"]
        left(to)  == [roadID |-> to, umin |-> USourceRight,
                      umax |-> USourceRight + LEN_LEFT,
                      laneMin |-> 0, laneMax |-> 0, turnType |-> "left"]
    IN  CASE r = 0 -> <<right(2), left(3)>>
          [] r = 1 -> <<right(4), left(5)>>
          [] r = 2 -> <<right(0), left(1)>>
          [] r = 4 -> <<right(1), left(0)>>
          [] OTHER -> <<>>

\* setupConnections: the only four connections, all from u = 190 to u = 10.
Connects(r) ==
    LET c(to) == [targetRoad |-> to, uSource |-> 190000, uTarget |-> 10000]
    IN  CASE r = 0 -> <<c(0)>>
          [] r = 1 -> <<c(1)>>
          [] r = 2 -> <<c(3)>>
          [] r = 4 -> <<c(5)>>
          [] OTHER -> <<>>

RECURSIVE IsqrtBetween(_, _, _)
IsqrtBetween(n, lo, hi) ==
    IF lo >= hi THEN lo
    ELSE LET mid == (lo + hi + 1) \div 2
         IN  IF mid * mid <= n THEN IsqrtBetween(n, mid, hi)
             ELSE IsqrtBetween(n, lo, mid - 1)

\* Math.sqrt, rounded down.
Isqrt(n) == IsqrtBetween(n, 0, 46000)

\* calcAccDet's v0eff and aeff for a driverfactor in thousandths.
V0eff(driverfactor) ==
    Min(Min((IDM.v0 * driverfactor) \div 1000, IDM.speedlimit), IDM.speedmax)

Aeff(driverfactor) == (IDM.a * driverfactor) \div 1000

\* calcAccDet's free-flow term accFree.
AccFree(driverfactor, v) ==
    LET v0eff == V0eff(driverfactor)
        aeff == Aeff(driverfactor)
        r == (v * 1000) \div v0eff
        r2 == (r * r) \div 1000
    IN  IF v < v0eff
        THEN (aeff * (1000 - (r2 * r2) \div 1000)) \div 1000
        ELSE (aeff * (v0eff - v)) \div v0eff

\* calcAccDet's desired dynamical gap sstar.
SStar(driverfactor, v, vl) ==
    IDM.s0 + Max(0, (v * IDM.T) \div 1000
                     + (v * (v - vl)) \div (2 * Isqrt(Aeff(driverfactor) * IDM.b)))

\* Variant of calcAccDet without the final clamp at -bmax.
CalcAccDetUnclamped(driverfactor, s, v, vl) ==
    LET q == Min((SStar(driverfactor, v, vl) * 1000) \div Max(s, IDM.s0), 3000)
    IN  AccFree(driverfactor, v)
        + (IF s > 0 /\ v >= 0
           THEN -((Aeff(driverfactor) * ((q * q) \div 1000)) \div 1000)
           ELSE 0)

\* Variant of calcAccDet without the interaction term.
CalcAccDetNoInteraction(driverfactor, s, v, vl) ==
    Max(-IDM.bmax, AccFree(driverfactor, v))

\* IDMModel.calcAccDet(s, v, vl, al) for a model with the given
\* driverfactor (thousandths).  The quotient sstar / max(s, s0) is capped
\* at 3: beyond it the result is -bmax whatever the quotient.
CalcAccDet(driverfactor, s, v, vl) ==
    LET aeff == Aeff(driverfactor)
        accFree == AccFree(driverfactor, v)
        sstar == SStar(driverfactor, v, vl)
        q == Min((sstar * 1000) \div Max(s, IDM.s0), 3000)
        accInt == IF s > 0 /\ v >= 0
                  THEN -((aeff * ((q * q) \div 1000)) \div 1000)
                  ELSE 0
    IN  Max(-IDM.bmax, accFree + accInt)

\* The leader calcAccelerations finds for veh[i]: the first vehicle after
\* it in the lane's u-sorted (stable) order with a strictly larger u; 0 if
\* there is none.
LeaderIndex(veh, i) ==
    LET ahead == {j \in 1..Len(veh) :
                    veh[j].lane = veh[i].lane /\ veh[j].u > veh[i].u}
    IN  IF ahead = {} THEN 0
        ELSE CHOOSE j \in ahead :
                \A k \in ahead : veh[j].u < veh[k].u
                                 \/ (veh[j].u = veh[k].u /\ j <= k)

\* Road.calcAccelerations.
CalcAccelerations(veh) ==
    [i \in 1..Len(veh) |->
        LET l == LeaderIndex(veh, i)
            gap == veh[l].u - veh[i].u - CAR_LENGTH
            a == IF l # 0
                 THEN CalcAccDet(veh[i].driverfactor, Max(MinGap, gap),
                                 veh[i].speed, veh[l].speed)
                 ELSE CalcAccDet(veh[i].driverfactor, FreeGap,
                                 veh[i].speed, veh[i].speed)
        IN  IF veh[i].lane \in 0..(NLanes - 1)
            THEN [veh[i] EXCEPT !.acc = Max(AccMin, Min(AccMax, a))]
            ELSE [veh[i] EXCEPT !.acc = 0]]

\* MOBILModel.findLeadingVehicle / findFollowingVehicle among the vehicles
\* of one lane: nearest other vehicle strictly ahead / behind, the earliest
\* in array order among equally near ones; 0 if none.
FindLeadingVehicle(vehicle, veh, lane) ==
    LET c == {j \in 1..Len(veh) : veh[j].lane = lane /\ veh[j].id # vehicle.id
                                   /\ veh[j].u > vehicle.u}
    IN  IF c = {} THEN 0
        ELSE CHOOSE j \in c : \A k \in c : veh[j].u < veh[k].u
                                           \/ (veh[j].u = veh[k].u /\ j <= k)

FindFollowingVehicle(vehicle, veh, lane) ==
    LET c == {j \in 1..Len(veh) : veh[j].lane = lane /\ veh[j].id # vehicle.id
                                   /\ veh[j].u < vehicle.u}
    IN  IF c = {} THEN 0
        ELSE CHOOSE j \in c : \A k \in c : veh[j].u > veh[k].u
                                           \/ (veh[j].u = veh[k].u /\ j <= k)

\* MOBIL computes its gaps from leader.length and vehicle.length, fields no
\* vehicle has: the gap is NaN, calcAccDet's test s > 0 fails on it, and the
\* interaction term is dropped.  Any non-positive s has that effect here.
NaNGap == 0

\* MOBILModel.calculateLaneAcceleration.
CalculateLaneAcceleration(vehicle, veh, lane) ==
    LET l == FindLeadingVehicle(vehicle, veh, lane)
    IN  IF l = 0
        THEN CalcAccDet(vehicle.driverfactor, FreeGap, vehicle.speed, vehicle.speed)
        ELSE CalcAccDet(vehicle.driverfactor, NaNGap, vehicle.speed, veh[l].speed)

\* MOBILModel.calculateFollowerImpact.
CalculateFollowerImpact(vehicle, veh, lane) ==
    LET f == FindFollowingVehicle(vehicle, veh, lane)
    IN  IF f = 0 THEN 0
        ELSE CalcAccDet(veh[f].driverfactor, NaNGap, veh[f].speed, vehicle.speed)

\* MOBILModel.calculateOthersGain (factorOther = 1).
CalculateOthersGain(vehicle, veh, currentLane, targetLane) ==
    LET cf == FindFollowingVehicle(vehicle, veh, currentLane)
        cl == FindLeadingVehicle(vehicle, veh, currentLane)
        tf == FindFollowingVehicle(vehicle, veh, targetLane)
        g1 == IF cf = 0 THEN 0
              ELSE (IF cl # 0
                    THEN CalcAccDet(veh[cf].driverfactor, NaNGap,
                                    veh[cf].speed, veh[cl].speed)
                    ELSE CalcAccDet(veh[cf].driverfactor, FreeGap,
                                    veh[cf].speed, veh[cf].speed))
                   - veh[cf].acc
        g2 == IF tf = 0 THEN 0
              ELSE CalcAccDet(veh[tf].driverfactor, NaNGap,
                              veh[tf].speed, vehicle.speed) - veh[tf].acc
    IN  g1 - g2

\* MOBILModel.shouldChangeLanes(...).shouldChange, for the MOBIL model m.
ShouldChangeLanes(m, vehicle, veh, targetLane, direction) ==
    LET accCurrent == CalculateLaneAcceleration(vehicle, veh, vehicle.lane)
        accTarget == CalculateLaneAcceleration(vehicle, veh, targetLane)
        followerDecel == CalculateFollowerImpact(vehicle, veh, targetLane)
        gain == CalculateOthersGain(vehicle, veh, vehicle.lane, targetLane)
        incentive == accTarget - accCurrent + (m.p * gain) \div 1000
                     + (IF direction > 0 THEN m.biasRight ELSE 0)
                     + (IF vehicle.mandatoryLaneChange THEN m.aThr ELSE 0)
    IN  IF followerDecel < -m.bSafe THEN FALSE
        ELSE incentive > m.aThr * (IF vehicle.mandatoryLaneChange THEN 2 ELSE 1)

\* MOBILModel.shouldChangeLanes(...).reason.
LaneChangeReason(m, vehicle, veh, targetLane, direction) ==
    IF CalculateFollowerImpact(vehicle, veh, targetLane) < -m.bSafe
    THEN "unsafe_follower"
    ELSE IF ShouldChangeLanes(m, vehicle, veh, targetLane, direction)
    THEN "beneficial"
    ELSE "insufficient_gain"

\* Road.evaluateLaneChangeNeed on road r: the lane asked for and whether
\* the call set mandatoryLaneChange.
EvaluateLaneChangeNeed(r, v) ==
    LET stay == [lane |-> v.lane, mandatory |-> FALSE]
        t == TrajAlt(r)
        hits == {k \in 1..Len(t) : t[k].roadID = v.route[Len(v.route)]
                    /\ ((t[k].laneMin = 0 /\ v.lane # 0)
                        \/ (t[k].laneMax = NLanes - 1 /\ v.lane # NLanes - 1))}
        k == CHOOSE x \in hits : \A y \in hits : x <= y
    IN  IF Len(v.route) > 1 /\ v.u > RoadLen - TurningZone /\ hits # {}
        THEN [lane |-> IF t[k].laneMin = 0 /\ v.lane # 0 THEN 0 ELSE NLanes - 1,
              mandatory |-> TRUE]
        ELSE stay

\* executeLaneChange that leaves the change timer running.
ExecuteLaneChangeKeepTimer(v, targetLane) ==
    [v EXCEPT !.laneOld = v.lane, !.lane = targetLane,
              !.mandatoryLaneChange = FALSE, !.tacticalLaneChange = FALSE]

\* Road.executeLaneChange.
ExecuteLaneChange(v, targetLane) ==
    [v EXCEPT !.laneOld = v.lane, !.lane = targetLane, !.dt_afterLC = 0,
              !.mandatoryLaneChange = FALSE, !.tacticalLaneChange = FALSE]

\* One iteration of the loop of Road.changeLanes, for veh[i].  dt_afterLC
\* is only ever compared with dt_LC, so it is kept from growing past its
\* creation value.
ChangeLane(r, veh, i) ==
    LET aged == [veh[i] EXCEPT !.dt_afterLC = Min(@ + PhysicsDt, DtAfterLCInit)]
        need == EvaluateLaneChangeNeed(r, aged)
        v == [aged EXCEPT !.mandatoryLaneChange = @ \/ need.mandatory]
        now == [veh EXCEPT ![i] = v]
        direction == IF need.lane > v.lane THEN 1 ELSE -1
        m == IF v.mandatoryLaneChange
             THEN (IF direction > 0 THEN LCModelMandatoryRight
                                    ELSE LCModelMandatoryLeft)
             ELSE IF v.tacticalLaneChange THEN LCModelTactical
             ELSE LCModelNormal
    IN  IF aged.dt_afterLC < DT_LC THEN [veh EXCEPT ![i] = aged]
        ELSE IF need.lane # v.lane /\ need.lane \in 0..(NLanes - 1)
                /\ ShouldChangeLanes(m, v, now, need.lane, direction)
        THEN [veh EXCEPT ![i] = ExecuteLaneChange(v, need.lane)]
        ELSE now

\* The call of shouldChangeLanes that Road.changeLanes makes for veh[i]:
\* whether it is made, for which lane, and the reason it returns.
LaneChangeCall(r, veh, i) ==
    LET aged == [veh[i] EXCEPT !.dt_afterLC = Min(@ + PhysicsDt, DtAfterLCInit)]
        need == EvaluateLaneChangeNeed(r, aged)
        v == [aged EXCEPT !.mandatoryLaneChange = @ \/ need.mandatory]
        now == [veh EXCEPT ![i] = v]
        direction == IF need.lane > v.lane THEN 1 ELSE -1
        m == IF v.mandatoryLaneChange
             THEN (IF direction > 0 THEN LCModelMandatoryRight
                                    ELSE LCModelMandatoryLeft)
             ELSE IF v.tacticalLaneChange THEN LCModelTactical
             ELSE LCModelNormal
        made == /\ aged.dt_afterLC >= DT_LC
                /\ need.lane # v.lane /\ need.lane \in 0..(NLanes - 1)
    IN  [made |-> made, lane |-> need.lane,
         follower |-> FindFollowingVehicle(v, now, need.lane),
         reason |-> IF made THEN LaneChangeReason(m, v, now, need.lane, direction)
                    ELSE "none"]

RECURSIVE ChangeLanesFrom(_, _, _)
ChangeLanesFrom(r, veh, i) ==
    IF i > Len(veh) THEN veh
    ELSE ChangeLanesFrom(r, ChangeLane(r, veh, i), i + 1)

\* Road.changeLanes.
ChangeLanes(r, veh) == ChangeLanesFrom(r, veh, 1)

OnRoad(v) == v.u <= RoadLen + ExitMargin

\* Road.updateSpeedPositions: one step of PhysicsDt, then drop the vehicles
\* beyond roadLen + 10.
UpdateSpeedPositions(veh) ==
    SelectSeq([i \in 1..Len(veh) |->
                 [veh[i] EXCEPT
                    !.u = @ + Max(0, (840 * veh[i].speed + 49 * veh[i].acc) \div 7200),
                    !.speed = Max(0, @ + (PhysicsDt * veh[i].acc) \div 60)]],
              OnRoad)

\* Road.shouldUseConnection.
ShouldUseConnection(r, v, connection) ==
    IF Len(v.route) <= 1 THEN connection.targetRoad = r
    ELSE connection.targetRoad = v.route[2]

\* Road.transferVehicle: the vehicle as it arrives on the target road.
TransferVehicle(v, connection) ==
    [v EXCEPT !.u = connection.uTarget,
              !.route = IF Len(@) > 1 THEN Tail(@) ELSE @]

RECURSIVE Kept(_, _, _)
Kept(r, veh, connection) ==
    IF veh = <<>> THEN <<>>
    ELSE IF Head(veh).u >= connection.uSource
            /\ ShouldUseConnection(r, Head(veh), connection)
         THEN Kept(r, Tail(veh), connection)
         ELSE <<Head(veh)>> \o Kept(r, Tail(veh), connection)

\* The transferred vehicles in the order the downward loop pushes them.
RECURSIVE Transferred(_, _, _)
Transferred(r, veh, connection) ==
    IF veh = <<>> THEN <<>>
    ELSE Transferred(r, Tail(veh), connection)
         \o (IF Head(veh).u >= connection.uSource
                /\ ShouldUseConnection(r, Head(veh), connection)
             THEN <<TransferVehicle(Head(veh), connection)>>
             ELSE <<>>)

\* Road.processConnections of road r, on the whole network.
ProcessConnections(net, r) ==
    IF Connects(r) = <<>> THEN net
    ELSE LET connection == Connects(r)[1]
             stay == Kept(r, net[r].veh, connection)
             moved == Transferred(r, net[r].veh, connection)
             to == connection.targetRoad
         IN  IF to = r
             THEN [net EXCEPT ![r].veh = stay \o moved]
             ELSE [net EXCEPT ![r].veh = stay, ![to].veh = @ \o moved]

\* The body of the loop of Intersection.update for road r.
UpdateRoad(net, r) ==
    ProcessConnections(
        [net EXCEPT ![r].veh =
            UpdateSpeedPositions(ChangeLanes(r, CalcAccelerations(@)))], r)

RECURSIVE UpdateRoadsFrom(_, _)
UpdateRoadsFrom(net, r) ==
    IF r > 5 THEN net ELSE UpdateRoadsFrom(UpdateRoad(net, r), r + 1)

\* Intersection.update(deltaTime): every road in turn, one PhysicsDt each.
IntersectionStep(net) == UpdateRoadsFrom(net, 0)

\* Road.createVehicle(route): d holds the values its Math.random calls and
\* the new IDMModel's driverfactor come out as.
CreateVehicle(route, d) ==
    [id |-> d.id, route |-> route, u |-> SpawnU, lane |-> d.lane,
     laneOld |-> d.lane,
     speed |-> Max(0, d.speed), acc |-> 0, dt_afterLC |-> DtAfterLCInit,
     mandatoryLaneChange |-> FALSE, tacticalLaneChange |-> FALSE,
     driverfactor |-> d.driverfactor]

\* Values drawn for a created vehicle: speed is speedInit + (random - 0.5) * 5,
\* driverfactor is 1 + 0.2 * (random - 0.5).
VehicleDraws ==
    [id : {1}, lane : 0..(NLanes - 1),
     speed : {SpeedInit - 2000, SpeedInit, SpeedInit + 2000},
     driverfactor : {950, 1000}]

(***************************************************************************)
(* One vehicle on the road network: a vehicle as createVehicle makes it,   *)
(* on one of the four entrance roads with one of that road's routes,       *)
(* driven by Intersection.update.                                          *)
(***************************************************************************)
InitRoad ==
    /\ EngineInit("fixed", ShortSettings) /\ SignalInit /\ ClockInit
    /\ \E r \in {0, 1, 2, 4}, k \in 1..3, d \in VehicleDraws :
          network = [Network0 EXCEPT ![r].veh = <<CreateVehicle(Routes[r][k], d)>>]

\* Intersection.update(deltaTime).
IntersectionUpdate ==
    /\ network' = IntersectionStep(network)
    /\ UNCHANGED <<signalVars, engineVars, clockVars>>

NextRoad == IntersectionUpdate

SpecRoad == InitRoad /\ [][NextRoad]_vars

\* C3 as stated: a vehicle with route [0, 5] leaves road 0 at the connection
\* point (u = 190 m) for road 5, so that after an update of the road network
\* no vehicle with route [0, 5] is on road 0 at or beyond that point.
C3_RightTurnTransfer ==
    \A i \in 1..Len(network[0].veh) :
        network[0].veh[i].route = <<0, 5>>
            => network[0].veh[i].u < Connects(0)[1].uSource

\* A vehicle with route [0, 5] has passed the whole of road 0 without
\* being transferred.
C3_Stranded ==
    \E i \in 1..Len(network[0].veh) :
        /\ network[0].veh[i].route = <<0, 5>>
        /\ network[0].veh[i].u > RoadLen

\* C14: across a tick, a vehicle that is in the same road's vehicle set
\* before and after has not moved backwards (its u has not decreased), also
\* on the roads connected to themselves; and no vehicle's speed is negative.
C14_UNonDecreasing ==
    /\ [](\A r \in DOMAIN network : \A i \in 1..Len(network[r].veh) :
             network[r].veh[i].speed >= 0)
    /\ [][\A r \in DOMAIN network :
             \A i \in 1..Len(network[r].veh), j \in 1..Len(network'[r].veh) :
                network[r].veh[i].id = network'[r].veh[j].id
                    => network'[r].veh[j].u >= network[r].veh[i].u]_vars

\* A vehicle going straight on road 0 or 1 is back at the target offset of
\* the road's connection to itself.
C14_WrappedBack ==
    \E r \in {0, 1} : \E i \in 1..Len(network[r].veh) :
        /\ Connects(r)[1].targetRoad = r
        /\ network[r].veh[i].route = <<r>>
        /\ network[r].veh[i].u = Connects(r)[1].uTarget

\* Vehicle i of road r has been moved by r's connection in the step: it is
\* vehicle j of the connection's target road afterwards, and where the
\* target is r itself it is further back than it was.
MovedByConnection(r, i, j) ==
    LET connection == Connects(r)[1]
        to == connection.targetRoad
    IN  /\ network'[to].veh[j].id = network[r].veh[i].id
        /\ to = r => network'[to].veh[j].u < network[r].veh[i].u

\* C35: a vehicle is moved by a connection only when the next road of its
\* route is the connection's target, and the move shortens its route by
\* its first element and puts it on the target road from the target offset
\* on - for every connection, the straight-through ones included; and no
\* vehicle whose next road is the target stays on the source road at or
\* beyond the source offset.
C35_CrossingFollowsRoute ==
    /\ [](\A r \in DOMAIN network : \A i \in 1..Len(network[r].veh) :
            LET v == network[r].veh[i]
            IN  (/\ Connects(r) # <<>> /\ Len(v.route) > 1
                 /\ v.route[2] = Connects(r)[1].targetRoad)
                    => v.u < Connects(r)[1].uSource)
    /\ [][ \A r \in DOMAIN network : Connects(r) # <<>> =>
             \A i \in 1..Len(network[r].veh) :
                \A j \in 1..Len(network'[Connects(r)[1].targetRoad].veh) :
                   MovedByConnection(r, i, j)
                   => LET before == network[r].veh[i]
                          after == network'[Connects(r)[1].targetRoad].veh[j]
                      IN  /\ Len(before.route) > 1
                          /\ before.route[2] = Connects(r)[1].targetRoad
                          /\ after.route = Tail(before.route)
                          /\ after.u >= Connects(r)[1].uTarget ]_vars

\* A vehicle going straight on the westbound road has been put back by the
\* road's connection to itself and still carries its whole route.
C35_MovedWithoutNextRoad ==
    /\ Len(network[1].veh) = 1
    /\ network[1].veh[1].route = Routes[1][1]
    /\ network[1].veh[1].u = Connects(1)[1].uTarget
    /\ network[1].veh[1].speed > SpeedInit

(***************************************************************************)
(* Two vehicles in one lane of one road, driven by Intersection.update.    *)
(* The follower is at the spawn point.  The leader is ahead of it either   *)
(* by at least the gap the car-following law itself asks for at the pair's *)
(* speeds (calcAccDet's sstar), with speeds from 0 to twice the desired    *)
(* speed, or by the clearance canSpawnVehicle insists on, with the speeds  *)
(* createVehicle gives.  Their routes need no turn lane, so neither        *)
(* changes lane.                                                           *)
(***************************************************************************)
FollowRoads == {0, 2}
FollowerSpeeds == {0, 8000, 15000, 17500, 30000}
LeaderSpeeds == {0, 7000, 15000, 30000}
FollowFactors == {900, 1000, 1100}
\* Spacing beyond the desired gap (mm).
ExtraGaps == {0, 3000}
\* createVehicle: speedInit + (random - 0.5) * 5.
SpawnSpeeds == {SpeedInit - 2500, SpeedInit, SpeedInit + 2500}

\* The pair for given draws: follower id 1 at the spawn point, leader id 2
\* at ul.
FollowPair(r, lane, v, vl, df, dfl, ul) ==
    LET base == [route |-> Routes[r][1], lane |-> lane, laneOld |-> lane,
                 acc |-> 0,
                 dt_afterLC |-> DtAfterLCInit, mandatoryLaneChange |-> FALSE,
                 tacticalLaneChange |-> FALSE]
    IN  << base @@ [id |-> 1, u |-> SpawnU, speed |-> v, driverfactor |-> df],
           base @@ [id |-> 2, u |-> ul, speed |-> vl, driverfactor |-> dfl] >>

\* Leader positions at least the desired gap ahead of the spawn point.
DesiredGapStarts(v, vl, df) ==
    { SpawnU + SStar(df, v, vl) + extra + CAR_LENGTH : extra \in ExtraGaps }

InitFollow ==
    /\ EngineInit("fixed", ShortSettings) /\ SignalInit /\ ClockInit
    /\ \E r \in FollowRoads, lane \in 0..(NLanes - 1), df \in FollowFactors :
          \/ \E v \in FollowerSpeeds, vl \in LeaderSpeeds :
                \E ul \in DesiredGapStarts(v, vl, df) :
                   /\ ul < Connects(r)[1].uSource
                   /\ network = [Network0 EXCEPT ![r].veh =
                                    FollowPair(r, lane, v, vl, df, 1000, ul)]
          \/ \E v \in SpawnSpeeds, vl \in SpawnSpeeds, dfl \in FollowFactors :
                network = [Network0 EXCEPT ![r].veh =
                              FollowPair(r, lane, v, vl, df, dfl, SpawnU + SpawnZone)]

NextFollow == IntersectionUpdate

SpecFollow == InitFollow /\ [][NextFollow]_vars

\* The front of veh[i] is beyond the rear of a vehicle ahead of it in its lane.
Overlaps(veh, i, j) ==
    /\ veh[i].lane = veh[j].lane
    /\ veh[i].u < veh[j].u
    /\ veh[i].u > veh[j].u - CAR_LENGTH

\* C11: two vehicles in one lane of a road that start a safe gap apart (at
\* least the desired gap sstar of the car-following law at their speeds,
\* with speeds between 0 and twice the desired speed; or the spawn
\* clearance, with the speeds vehicles are created with): after any number
\* of ticks, the follower's u is at most the leader's u minus the leader's
\* length.
C11_NoOverlap ==
    \A r \in DOMAIN network :
        \A i, j \in 1..Len(network[r].veh) : ~Overlaps(network[r].veh, i, j)

\* Ticks have run, and the follower is closing in on the leader inside the
\* gap the law asks for, braking, with its front still behind the leader's
\* rear.
C11_Witness ==
    \E r \in DOMAIN network :
        \E i, j \in 1..Len(network[r].veh) :
            LET f == network[r].veh[i]
                l == network[r].veh[j]
            IN  /\ f.lane = l.lane
                /\ f.u > SpawnU
                /\ f.u <= l.u - CAR_LENGTH
                /\ l.u - CAR_LENGTH - f.u < SStar(f.driverfactor, f.speed, l.speed)
                /\ f.speed > l.speed
                /\ f.acc < 0

(***************************************************************************)
(* A vehicle bound for a turn, in the lane its turn cannot be made from,   *)
(* and a second vehicle behind it in the lane it has to change to, driven  *)
(* by Intersection.update.                                                 *)
(***************************************************************************)
ChangerPositions == {140000, 155000}
ChangerSpeeds == {8000, 15000}
\* Bumper-to-bumper distance of the second vehicle behind the first (mm).
FollowerGaps == {1000, 30000}
TargetFollowerSpeeds == {15000, 17500}

\* Vehicle 1 with the right-turn (k = 2) or left-turn (k = 3) route of road
\* r in the other lane than the turn's, vehicle 2 going straight in the
\* turn's lane, gap behind vehicle 1.
ChangerAndFollower(r, k, u, v, gap, vf) ==
    LET base == [acc |-> 0, dt_afterLC |-> DtAfterLCInit,
                 mandatoryLaneChange |-> FALSE, tacticalLaneChange |-> FALSE,
                 driverfactor |-> 1000]
        turnLane == IF k = 2 THEN NLanes - 1 ELSE 0
    IN  << base @@ [id |-> 1, route |-> Routes[r][k], lane |-> (NLanes - 1) - turnLane,
                    laneOld |-> (NLanes - 1) - turnLane, u |-> u, speed |-> v],
           base @@ [id |-> 2, route |-> Routes[r][1], lane |-> turnLane,
                    laneOld |-> turnLane,
                    u |-> u - CAR_LENGTH - gap, speed |-> vf] >>

InitLaneChange ==
    /\ EngineInit("fixed", ShortSettings) /\ SignalInit /\ ClockInit
    /\ \E r \in {2, 4}, k \in {2, 3}, u \in ChangerPositions, v \in ChangerSpeeds,
          gap \in FollowerGaps, vf \in TargetFollowerSpeeds :
          network = [Network0 EXCEPT ![r].veh = ChangerAndFollower(r, k, u, v, gap, vf)]

NextLaneChange == IntersectionUpdate

SpecLaneChange == InitLaneChange /\ [][NextLaneChange]_vars

\* The acceleration the car-following law gives veh[f] behind veh[i] at
\* their bumper-to-bumper gap, before the clamp at -bmax.
ImposedOnFollower(veh, i, f) ==
    LET df == veh[f].driverfactor
        gap == veh[i].u - veh[f].u - CAR_LENGTH
        q == (SStar(df, veh[f].speed, veh[i].speed) * 1000) \div Max(gap, IDM.s0)
    IN  AccFree(df, veh[f].speed) - (Aeff(df) * ((q * q) \div 1000)) \div 1000

\* C12 as stated: whenever changeLanes asks shouldChangeLanes about a
\* change that would put the vehicle in front of a faster follower in the
\* target lane at a gap at which the car-following law asks more than bSafe
\* of that follower, the answer has the reason 'unsafe_follower'.
C12_UnsafeFollowerRejected ==
    \A r \in DOMAIN network :
        \A i \in 1..Len(network[r].veh) :
            LET veh == CalcAccelerations(network[r].veh)
                call == LaneChangeCall(r, veh, i)
            IN  ( /\ call.made /\ call.follower # 0
                  /\ veh[call.follower].speed > veh[i].speed
                  /\ ImposedOnFollower(veh, i, call.follower) < -LCModelNormal.bSafe )
                => call.reason = "unsafe_follower"

\* An accepted change has put a vehicle in front of a faster follower, and
\* the follower's front has since passed the vehicle's rear.
C12_CutIn ==
    \E r \in DOMAIN network :
        \E i, f \in 1..Len(network[r].veh) :
            LET veh == network[r].veh
            IN  /\ veh[i].dt_afterLC < DT_LC
                /\ Overlaps(veh, f, i)
                /\ veh[f].speed > veh[i].speed

\* C36: a vehicle that changes lane is put in a lane of the road with its
\* previous lane recorded, its change timer at 0 and its mandatory and
\* tactical flags cleared; the timer then counts the simulated time since
\* the change, one timestep per pass, and the vehicle changes lane again
\* only when the timer shows more than 4 seconds.
C36_CoolDown ==
    [][ \A r \in DOMAIN network :
          \A i \in 1..Len(network[r].veh), j \in 1..Len(network'[r].veh) :
             LET before == network[r].veh[i]
                 after == network'[r].veh[j]
             IN  after.id = before.id
                 => IF after.lane # before.lane
                    THEN /\ after.lane \in 0..(NLanes - 1)
                         /\ after.laneOld = before.lane
                         /\ after.dt_afterLC = 0
                         /\ ~after.mandatoryLaneChange /\ ~after.tacticalLaneChange
                         /\ before.dt_afterLC + PhysicsDt > DT_LC
                    ELSE /\ after.dt_afterLC
                               = Min(before.dt_afterLC + PhysicsDt, DtAfterLCInit)
                         /\ after.laneOld = before.laneOld ]_vars

\* A vehicle changed lane less than 4 seconds ago and is in the turning
\* zone of its road, in the lane it changed to.
C36_Witness ==
    \E r \in DOMAIN network : \E i \in 1..Len(network[r].veh) :
        LET v == network[r].veh[i]
        IN  /\ v.lane # v.laneOld
            /\ v.dt_afterLC > 0 /\ v.dt_afterLC < DT_LC
            /\ v.u > RoadLen - TurningZone

\* The four MOBIL models of a road.
LCModels == {LCModelMandatoryRight, LCModelMandatoryLeft, LCModelTactical,
             LCModelNormal}

\* The vehicle lists shouldChangeLanes is asked about: a vehicle and a
\* second one behind it in the other lane, as the road starts with.
MobilCases ==
    { ChangerAndFollower(r, k, u, v, gap, vf) :
        r \in {2, 4}, k \in {2, 3}, u \in ChangerPositions, v \in ChangerSpeeds,
        gap \in FollowerGaps, vf \in TargetFollowerSpeeds }

\* shouldChangeLanes of model m for veh[i] and the lane next to its own,
\* with the vehicle's mandatory flag as given.
AcceptedAs(mandatory, m, veh, i) ==
    LET now == [veh EXCEPT ![i].mandatoryLaneChange = mandatory]
        targetLane == (NLanes - 1) - veh[i].lane
        direction == IF targetLane > veh[i].lane THEN 1 ELSE -1
    IN  ShouldChangeLanes(m, now[i], now, targetLane, direction)

\* C37: with everything else equal, marking a change mandatory lowers the
\* acceptance threshold: whatever is accepted when not mandatory is
\* accepted when mandatory (for every vehicle on the roads and every MOBIL
\* model), and there are cases that are rejected when not mandatory but
\* accepted when mandatory.
C37_MandatoryLowersThreshold ==
    /\ \A r \in DOMAIN network : \A i \in 1..Len(network[r].veh) : \A m \in LCModels :
          AcceptedAs(FALSE, m, network[r].veh, i)
              => AcceptedAs(TRUE, m, network[r].veh, i)
    /\ \E veh \in MobilCases : \E m \in LCModels :
          ~AcceptedAs(FALSE, m, veh, 1) /\ AcceptedAs(TRUE, m, veh, 1)

\* A vehicle past its cool-down is marked for a mandatory change, the safety
\* gate passes, and the change is refused for insufficient gain.
C37_MandatoryRefused ==
    \E r \in DOMAIN network : \E i \in 1..Len(network[r].veh) :
        LET veh == network[r].veh
            m == IF veh[i].lane = 0 THEN LCModelMandatoryRight
                 ELSE LCModelMandatoryLeft
        IN  /\ veh[i].mandatoryLaneChange
            /\ veh[i].dt_afterLC >= DT_LC
            /\ CalculateFollowerImpact(veh[i], veh, (NLanes - 1) - veh[i].lane)
                   >= -m.bSafe
            /\ ~AcceptedAs(TRUE, m, veh, i)

\* veh[i], as Road.changeLanes finds it on road r, is past its cool-down,
\* has no mandatory lane need, and the normal MOBIL model accepts a change
\* to the lane next to its own.
DiscretionaryChangeDue(r, veh, i) ==
    /\ veh[i].dt_afterLC + PhysicsDt >= DT_LC
    /\ ~veh[i].mandatoryLaneChange /\ ~veh[i].tacticalLaneChange
    /\ ~EvaluateLaneChangeNeed(r, veh[i]).mandatory
    /\ AcceptedAs(FALSE, LCModelNormal, veh, i)

\* C38: a vehicle past its cool-down with no mandatory lane need changes to
\* the adjacent lane in the update in which the normal MOBIL model finds the
\* incentive above the threshold and the follower's braking safe.
C38_DiscretionaryChange ==
    [][\A r \in DOMAIN network :
         LET veh == CalcAccelerations(network[r].veh)
         IN  \A i \in 1..Len(veh) : \A j \in 1..Len(network'[r].veh) :
                (/\ IntersectionUpdate
                 /\ network'[r].veh[j].id = veh[i].id
                 /\ DiscretionaryChangeDue(r, veh, i))
                    => network'[r].veh[j].lane # veh[i].lane]_vars

\* After an update a vehicle with a single-road route is past its
\* cool-down with no mandatory need, the lane next to it is empty and the
\* normal MOBIL model accepts the change, and it has not changed lane.
C38_ChangeNotMade ==
    \E r \in DOMAIN network :
        LET veh == CalcAccelerations(network[r].veh)
        IN  \E i \in 1..Len(veh) :
               /\ Len(veh[i].route) = 1 /\ network[r].veh[i].acc # 0
               /\ veh[i].lane = veh[i].laneOld
               /\ \A k \in 1..Len(veh) : veh[k].lane = veh[i].lane
               /\ DiscretionaryChangeDue(r, veh, i)

\* Gaps handed to calcAccDet: MOBIL's NaN gap, calcAccelerations' floor,
\* the minimum gap s0, a car-following gap and the leader-absent 1000 m.
IDMGaps == {NaNGap, MinGap, IDM.s0, 20000, FreeGap}

Scale == 6                 \* Intersection.scale = 1200 / 200
CenterPhys == 100000       \* centerX / scale = centerY / scale, in mm
OFFSET_MAIN == 3000
OFFSET_SEC == 3000
OFFSET_20_TARGET == 4500
RADIUS_RIGHT == 7500
LANE_WIDTH == 3000
CenterPx == 600000         \* Intersection.centerX = centerY = 600 px
StopLineOffset == 65000    \* INTERSECTION_SIZE / 2 + 5 px
HalfRoadWidth == 30000     \* ROAD_WIDTH / 2 px
DetectorDistance == 500000 \* DEFAULT_SETTINGS.DETECTOR_DISTANCE px
WaitSpeed == 2000          \* updateState: waiting below 2.0 m/s
CarSpawnU == 10000         \* Car constructor: u = 10
CarSpeedInit == 12000      \* Car constructor: IDM_V0 * 0.8

\* Car.getRoadIdFromDirection(direction).
RoadIdFromDirection(direction) ==
    CASE direction = "east" -> 0
      [] direction = "west" -> 1
      [] direction = "north" -> 2
      [] direction = "south" -> 4

\* Car.convertRouteFormat for the straight route the constructor builds.
CarRoute(direction) == Routes[RoadIdFromDirection(direction)][1]

\* Intersection.getVehiclePosition(roadID, u, v) for the entrance roads,
\* with the road's heading from get_phi; v is taken at the lane centre.
GetVehiclePosition(roadID, u, v) ==
    LET uPos == u - CAR_LENGTH \div 2
        laneOffset == LANE_WIDTH * v - (LANE_WIDTH * (NLanes - 1)) \div 2
        x == CASE roadID = 0 -> CenterPhys + uPos - RoadLen \div 2
               [] roadID = 1 -> CenterPhys - uPos + RoadLen \div 2
               [] roadID = 2 -> CenterPhys + OFFSET_SEC - laneOffset
               [] roadID = 4 -> CenterPhys - OFFSET_SEC + laneOffset
        y == CASE roadID = 0 -> CenterPhys - OFFSET_MAIN + laneOffset
               [] roadID = 1 -> CenterPhys + OFFSET_MAIN - laneOffset
               [] roadID = 2 -> CenterPhys - OFFSET_20_TARGET - RADIUS_RIGHT
                                - RoadLen + uPos
               [] roadID = 4 -> CenterPhys + OFFSET_20_TARGET + RADIUS_RIGHT
                                + RoadLen - uPos
    IN  [x |-> x * Scale, y |-> -(y * Scale)]

\* Car.x and Car.y as updatePixelPosition leaves them.
CarPosition(car) == GetVehiclePosition(car.roadId, car.u, car.lane)

\* Intersection.stopLines[direction]: the x1 and y1 the sensors read.
GetStopLinePosition(direction) ==
    CASE direction = "north" -> [x1 |-> CenterPx - HalfRoadWidth, y1 |-> CenterPx - StopLineOffset]
      [] direction = "east"  -> [x1 |-> CenterPx + StopLineOffset, y1 |-> CenterPx - HalfRoadWidth]
      [] direction = "south" -> [x1 |-> CenterPx - HalfRoadWidth, y1 |-> CenterPx + StopLineOffset]
      [] direction = "west"  -> [x1 |-> CenterPx - StopLineOffset, y1 |-> CenterPx - HalfRoadWidth]

\* SensorSystem.getDetectionZone(direction).
GetDetectionZone(direction) ==
    LET stopLine == GetStopLinePosition(direction)
    IN  CASE direction = "north" ->
               [x1 |-> CenterPx - HalfRoadWidth, y1 |-> stopLine.y1 - DetectorDistance,
                x2 |-> CenterPx + HalfRoadWidth, y2 |-> stopLine.y1]
          [] direction = "east" ->
               [x1 |-> stopLine.x1, y1 |-> CenterPx - HalfRoadWidth,
                x2 |-> stopLine.x1 + DetectorDistance, y2 |-> CenterPx + HalfRoadWidth]
          [] direction = "south" ->
               [x1 |-> CenterPx - HalfRoadWidth, y1 |-> stopLine.y1,
                x2 |-> CenterPx + HalfRoadWidth, y2 |-> stopLine.y1 + DetectorDistance]
          [] direction = "west" ->
               [x1 |-> stopLine.x1 - DetectorDistance, y1 |-> CenterPx - HalfRoadWidth,
                x2 |-> stopLine.x1, y2 |-> CenterPx + HalfRoadWidth]

\* SensorSystem.isCarInDetectionZone(car, zone).
IsCarInDetectionZone(car, zone) ==
    LET pos == CarPosition(car)
    IN  pos.x >= zone.x1 /\ pos.x <= zone.x2 /\ pos.y >= zone.y1 /\ pos.y <= zone.y2

Abs(n) == IF n < 0 THEN -n ELSE n

\* SensorSystem.isCarCloserToStopLine(car1, car2, direction).
IsCarCloserToStopLine(car1, car2, direction) ==
    LET stopLine == GetStopLinePosition(direction)
    IN  IF direction \in {"north", "south"}
        THEN Abs(CarPosition(car1).y - stopLine.y1) < Abs(CarPosition(car2).y - stopLine.y1)
        ELSE Abs(CarPosition(car1).x - stopLine.x1) < Abs(CarPosition(car2).x - stopLine.x1)

\* Car constructor, for the direction, lane, id, speed and driverfactor
\* drawn; the route always comes out as the straight one.  waitStartTime is
\* kept as the flag "is set"; the time it holds only matters through the
\* span Date.now() - waitStartTime added when the wait ends.
NewCar(id, direction, lane, speed, driverfactor) ==
    [id |-> id, fromDirection |-> direction,
     roadId |-> RoadIdFromDirection(direction), route |-> CarRoute(direction),
     lane |-> lane, laneOld |-> lane, u |-> CarSpawnU, speed |-> Max(0, speed),
     acc |-> 0,
     dt_afterLC |-> DtAfterLCInit, mandatoryLaneChange |-> FALSE,
     driverfactor |-> driverfactor,
     state |-> "approaching", waitStartTime |-> FALSE, totalWaitTime |-> 0,
     countedInDetector |-> FALSE]

\* Car.updateState; span is Date.now() - waitStartTime at this call.
UpdateState(car, span) ==
    LET t == TrajAlt(car.roadId)
        inTurningZone ==
            /\ Len(car.route) > 1
            /\ \E k \in 1..Len(t) : /\ t[k].roadID = car.route[2]
                                    /\ car.u >= t[k].umin /\ car.u <= t[k].umax
        c == IF car.u > (RoadLen * 9) \div 10 THEN [car EXCEPT !.state = "exiting"]
             ELSE IF inTurningZone THEN [car EXCEPT !.state = "turning"]
             ELSE IF car.u > (RoadLen * 7) \div 10 THEN [car EXCEPT !.state = "crossing"]
             ELSE IF car.speed < WaitSpeed
                  THEN [car EXCEPT !.state = "waiting", !.waitStartTime = TRUE]
             ELSE [car EXCEPT !.state = "approaching", !.waitStartTime = FALSE,
                              !.totalWaitTime = IF car.waitStartTime
                                                THEN @ + span ELSE @]
    IN  IF c.u > RoadLen + 5000 THEN [c EXCEPT !.state = "completed"] ELSE c

IsWaiting(car) == car.state = "waiting"
GetWaitTime(car) == car.totalWaitTime

\* The car with the given id in a car list (0 if none), as an index.
CarIndex(cars, id) ==
    IF \E i \in 1..Len(cars) : cars[i].id = id
    THEN CHOOSE i \in 1..Len(cars) : cars[i].id = id
    ELSE 0

\* SensorSystem.update, lines 38-55: the per-update reset, and the reset of
\* the approaches whose colour differs from prevLightStates.  hasLights
\* tells whether the caller passed lightStates (the adaptive mode does).
\* waitingCars holds the id of the car it refers to, 0 for null.
SensorReset(ss, hasLights, lightStates, prev) ==
    [totalCarsDetected |->
        [d \in DIRECTIONS |-> IF hasLights /\ lightStates[d] # prev[d]
                              THEN 0 ELSE ss.totalCarsDetected[d]],
     waitingCars |-> [d \in DIRECTIONS |-> 0],
     sensorData |->
        [d \in DIRECTIONS |-> [ss.sensorData[d] EXCEPT !.carsWaiting = 0,
                                                       !.waitTime = 0]]]

\* SensorSystem.update, lines 64-92, for cars[i]; w is [ss, cars].
SenseCar(w, i, hasLights, lightStates) ==
    LET car == w.cars[i]
        d == car.fromDirection
        inZone == IsCarInDetectionZone(car, GetDetectionZone(d))
        fresh == ~car.countedInDetector /\ inZone
        total == w.ss.totalCarsDetected[d] + (IF fresh THEN 1 ELSE 0)
        holder == CarIndex(w.cars, w.ss.waitingCars[d])
        waits == IsWaiting(car) /\ inZone
        takes == waits /\ (holder = 0 \/ IsCarCloserToStopLine(car, w.cars[holder], d))
    IN  IF ~(hasLights /\ lightStates[d] = "red") THEN w
        ELSE [ss |->
                [totalCarsDetected |-> [w.ss.totalCarsDetected EXCEPT ![d] = total],
                 waitingCars |-> [w.ss.waitingCars EXCEPT
                                    ![d] = IF takes THEN car.id ELSE @],
                 sensorData |-> [w.ss.sensorData EXCEPT
                    ![d].totalCarsDetected = IF fresh THEN total ELSE @,
                    ![d].carsWaiting = IF waits THEN @ + 1 ELSE @]],
              cars |-> [w.cars EXCEPT ![i].countedInDetector = inZone]]

RECURSIVE SenseCarsFrom(_, _, _, _)
SenseCarsFrom(w, i, hasLights, lightStates) ==
    IF i > Len(w.cars) THEN w
    ELSE SenseCarsFrom(SenseCar(w, i, hasLights, lightStates), i + 1,
                       hasLights, lightStates)

\* SensorSystem.update(cars, lightStates, prevLightStates): the sensor
\* system and the cars (whose _countedInDetector it writes) afterwards.
\* triggerCountReset has no caller, so shouldResetCounts is never set.
SensorUpdate(ss, cars, hasLights, lightStates, prev) ==
    LET w == SenseCarsFrom([ss |-> SensorReset(ss, hasLights, lightStates, prev),
                            cars |-> cars], 1, hasLights, lightStates)
    IN  [ss |-> [w.ss EXCEPT !.sensorData =
                    [d \in DIRECTIONS |->
                        IF w.ss.waitingCars[d] # 0
                        THEN [w.ss.sensorData[d] EXCEPT !.waitTime =
                                GetWaitTime(w.cars[CarIndex(w.cars, w.ss.waitingCars[d])])]
                        ELSE w.ss.sensorData[d]]],
         cars |-> w.cars]

(***************************************************************************)
(* The adaptive mode's sensors and controller over cars whose motion is    *)
(* an input: the position and speed a car reads back from its road         *)
(* vehicle in Car.update are drawn instead of being integrated.            *)
(***************************************************************************)
CarPositions == {CarSpawnU, 20000, 60000, 150000}
CarSpeeds == {1000, CarSpeedInit}
WaitSpans == {1500}
SensorDeltaTimes == {3000}
MaxWaitTime == 1500

\* The cars a CarManager holds after its first one or two spawns.
InitialCars ==
    { <<NewCar(1, "north", 0, CarSpeedInit, 1000)>> }
    \cup { <<NewCar(1, "north", 0, CarSpeedInit, 1000),
             NewCar(2, "north", 1, CarSpeedInit, 1000)>> }

InitSensor ==
    /\ mode = "adaptive" /\ settings = ShortSettings
    /\ prevLightStates = AllRed
    /\ \E cars \in InitialCars :
          carManager = [x \in MODES |->
                          IF x = "adaptive"
                          THEN [cars |-> cars, nextId |-> Len(cars) + 1,
                                lastSpawnTime |-> 0]
                          ELSE CarManager0]
    /\ sensorSystem = [x \in MODES |-> SensorSystem0]
    /\ statistics = [x \in MODES |-> Statistics0]
    /\ SignalInit /\ ClockInit
    /\ network = Network0

\* The lights the sensors compare with: GameEngine.update takes the current
\* ones when prevLightStates is still unset.
PrevLights ==
    IF prevLightStates = NoLightStates
    THEN (IF mode = "fixed" THEN fixedLights ELSE adaptiveLights)
    ELSE prevLightStates

\* Car.update for every car of a list: car i reads reading[i].u and
\* reading[i].speed back from its road vehicle, then runs updateState.
CarsRead(cars, reading, span) ==
    [i \in 1..Len(cars) |->
        UpdateState([cars[i] EXCEPT !.u = reading[i].u, !.speed = reading[i].speed],
                    span)]

\* Cars only move forward, and the accumulated wait is kept finite.
ReadingsAllowed(cars, reading, span) ==
    \A i \in 1..Len(cars) :
        /\ reading[i].u >= cars[i].u
        /\ CarsRead(cars, reading, span)[i].totalWaitTime <= MaxWaitTime

\* GameEngine.updateMode(m).
UpdateMode(m) ==
    /\ m # mode
    /\ mode' = m
    /\ sensorSystem' =
          IF m = "adaptive"
          THEN [sensorSystem EXCEPT
                  !["adaptive"].totalCarsDetected = [d \in DIRECTIONS |-> 0]]
          ELSE sensorSystem
    /\ UNCHANGED <<settings, prevLightStates, carManager, statistics,
                   signalVars, network, clockVars>>

\* GameEngine.update with the road physics replaced by the readings and
\* no spawning: trafficLights.update, Car.update of the active mode's cars,
\* sensorSystem.update, updateAdaptiveLogic (adaptive mode) and the
\* assignment of prevLightStates.
SensorFrame(deltaTime, reading, span) ==
    IF mode = "adaptive"
    THEN LET c == UpdateAdaptive(AdaptiveCtl, deltaTime, settings)
             cars == CarsRead(carManager["adaptive"].cars, reading, span)
             w == SensorUpdate(sensorSystem["adaptive"], cars, TRUE, c.lights,
                               PrevLights)
         IN  /\ ReadingsAllowed(carManager["adaptive"].cars, reading, span)
             /\ adaptiveState' = UpdateAdaptiveLogic(c.st, w.ss.sensorData)
             /\ adaptiveLights' = c.lights
             /\ sensorSystem' = [sensorSystem EXCEPT !["adaptive"] = w.ss]
             /\ carManager' = [carManager EXCEPT !["adaptive"].cars = w.cars]
             /\ prevLightStates' = c.lights
             /\ UNCHANGED <<mode, settings, statistics, fixedState, fixedLights,
                            fixedElapsed, fixedExact, network, clockVars>>
    ELSE LET c == UpdateFixed(FixedCtl, deltaTime, settings)
             cars == CarsRead(carManager["fixed"].cars, reading, span)
             w == SensorUpdate(sensorSystem["fixed"], cars, FALSE, c.lights,
                               PrevLights)
         IN  /\ ReadingsAllowed(carManager["fixed"].cars, reading, span)
             /\ fixedState' = c.st
             /\ fixedLights' = c.lights
             /\ sensorSystem' = [sensorSystem EXCEPT !["fixed"] = w.ss]
             /\ carManager' = [carManager EXCEPT !["fixed"].cars = w.cars]
             /\ prevLightStates' = c.lights
             /\ UNCHANGED <<mode, settings, statistics, adaptiveState, adaptiveLights,
                            fixedElapsed, fixedExact, network, clockVars>>

Readings == [u : CarPositions, speed : CarSpeeds]

NextSensor ==
    \/ \E deltaTime \in SensorDeltaTimes, span \in WaitSpans :
          \E reading \in [1..Len(carManager[mode].cars) -> Readings] :
              SensorFrame(deltaTime, reading, span)
    \/ \E m \in MODES : UpdateMode(m)

SpecSensor == InitSensor /\ [][NextSensor]_vars

\* C4 as stated: at the end of a sensor update in which an approach's
\* colour differs from the previous update's, that approach's reported
\* wait time is 0.
C4_WaitTimeResetOnChange ==
    [][ ( /\ mode = "adaptive"
          /\ \E deltaTime \in SensorDeltaTimes, span \in WaitSpans :
                \E reading \in [1..Len(carManager[mode].cars) -> Readings] :
                    SensorFrame(deltaTime, reading, span) )
        => \A d \in DIRECTIONS :
              adaptiveLights'[d] # PrevLights[d]
                 => sensorSystem'["adaptive"].sensorData[d].waitTime = 0 ]_vars

\* The step is a GameEngine.update in adaptive mode.
AdaptiveSensorFrame ==
    /\ mode = "adaptive"
    /\ \E deltaTime \in SensorDeltaTimes, span \in WaitSpans :
          \E reading \in [1..Len(carManager[mode].cars) -> Readings] :
              SensorFrame(deltaTime, reading, span)

\* The approaches of a pair.
Approaches(P) == IF P = "WE" THEN {"west", "east"} ELSE {"north", "south"}

\* carsWaiting x waitTime (ms) + 1000 x count, summed over a pair's two
\* approaches: the pair's score in thousandths, for a given sensor data
\* and given per-approach counts.
PairScoreOf(P, sensorData, counts) ==
    LET term(d) == sensorData[d].carsWaiting * sensorData[d].waitTime
                   + 1000 * counts[d]
    IN  IF P = "WE" THEN term("west") + term("east")
        ELSE term("north") + term("south")

\* C26: after the scoring step of an adaptive update each pair's priority
\* score is the sum over its two approaches of carsWaiting x waitTime in
\* seconds plus the approach's cumulative count of distinct vehicles
\* detected since its last reset, with the sensors' values of that update.
C26_ScoreFromCounts ==
    [][ AdaptiveSensorFrame
        => \A P \in PAIRS :
              adaptiveState'.priorityScores[P]
                  = PairScoreOf(P, sensorSystem'["adaptive"].sensorData,
                                sensorSystem'["adaptive"].totalCarsDetected) ]_vars

\* NS has a positive score although no vehicle has been counted on north or
\* south since their counters were reset and none is waiting there.
C26_ScoreWithoutVehicles ==
    /\ mode = "adaptive"
    /\ adaptiveState.priorityScores.NS > 0
    /\ \A d \in Approaches("NS") :
          /\ sensorSystem["adaptive"].totalCarsDetected[d] = 0
          /\ sensorSystem["adaptive"].sensorData[d].carsWaiting = 0

\* C27: the totalCarsDetected value the sensor data report for an approach
\* equals the approach's cumulative distinct-vehicle counter after every
\* sensor update and every counter reset; it is 0 from a reset of the
\* counter until the next vehicle is counted.
C27_ReportedCountIsCounter ==
    \A m \in MODES : \A d \in DIRECTIONS :
        sensorSystem[m].sensorData[d].totalCarsDetected
            = sensorSystem[m].totalCarsDetected[d]

\* North's counter has been reset to 0 and the sensor data still report the
\* count from before the reset.
C27_StaleReport ==
    /\ mode = "adaptive"
    /\ sensorSystem["adaptive"].totalCarsDetected["north"] = 0
    /\ sensorSystem["adaptive"].sensorData["north"].totalCarsDetected > 0

\* The cars of approach d that an adaptive update finds inside d's
\* detection zone and that have not been counted in their present stay.
NewlyInZone(d) ==
    { i \in 1..Len(carManager["adaptive"].cars) :
        /\ carManager["adaptive"].cars[i].fromDirection = d
        /\ ~carManager["adaptive"].cars[i].countedInDetector
        /\ IsCarInDetectionZone(carManager'["adaptive"].cars[i], GetDetectionZone(d)) }

\* C28: an adaptive update adds to the counter of a red approach 1 for
\* every vehicle that is in the approach's zone and has not been counted in
\* its present stay (so once per stay, also for a vehicle that entered while
\* the signal was not red), and leaves the counter of a non-red approach as
\* it was.
C28_CountedOncePerStay ==
    [][ AdaptiveSensorFrame
        => \A d \in DIRECTIONS :
              sensorSystem'["adaptive"].totalCarsDetected[d]
                  = sensorSystem["adaptive"].totalCarsDetected[d]
                    + (IF adaptiveLights'[d] = "red"
                       THEN Cardinality(NewlyInZone(d)) ELSE 0) ]_vars

\* North has just turned green with a counted vehicle still in its zone,
\* and north's counter is back at 0.
C28_CounterLostOnGreen ==
    /\ mode = "adaptive"
    /\ adaptiveLights["north"] = "green" /\ prevLightStates["north"] = "green"
    /\ adaptiveState.phaseTimer = 0
    /\ sensorSystem["adaptive"].totalCarsDetected["north"] = 0
    /\ \E i \in 1..Len(carManager["adaptive"].cars) :
          /\ carManager["adaptive"].cars[i].fromDirection = "north"
          /\ carManager["adaptive"].cars[i].countedInDetector

\* The step hands the green from one pair to the other.
PairSwitch ==
    /\ adaptiveState.currentPair \in PAIRS
    /\ adaptiveState'.currentPair \in PAIRS
    /\ adaptiveState'.currentPair # adaptiveState.currentPair

\* C29: a change of an approach's colour leaves the approach's cumulative
\* distinct-vehicle counter unchanged: an adaptive update that is not a pair
\* switch (the full resets are no updates) never lowers a counter, whatever
\* the colours do.
C29_CountSurvivesColourChange ==
    [][ AdaptiveSensorFrame /\ ~PairSwitch
        => \A d \in DIRECTIONS :
              sensorSystem'["adaptive"].totalCarsDetected[d]
                  >= sensorSystem["adaptive"].totalCarsDetected[d] ]_vars

\* NS has been given its first green for the vehicles counted on north, and
\* north's counter is 0 in the update that turned north green.
C29_CountLostOnFirstGreen ==
    /\ mode = "adaptive"
    /\ adaptiveState.currentPair = "NS" /\ adaptiveState.currentPhase = "green"
    /\ adaptiveState.phaseTimer = 0
    /\ adaptiveState.priorityScores["NS"] > 0
    /\ adaptiveState.priorityScores["WE"] = 0
    /\ sensorSystem["adaptive"].totalCarsDetected["north"] = 0

\* The adaptive mode's cars of approach d that are waiting inside d's
\* detection zone.
WaitingInZone(d) ==
    { i \in 1..Len(carManager["adaptive"].cars) :
        /\ carManager["adaptive"].cars[i].fromDirection = d
        /\ IsWaiting(carManager["adaptive"].cars[i])
        /\ IsCarInDetectionZone(carManager["adaptive"].cars[i], GetDetectionZone(d)) }

\* The vehicle the adaptive sensors track on approach d is a waiting in-zone
\* vehicle of d, and none of the others is closer to the stop line.
TrackedIsClosest(d) ==
    LET cars == carManager["adaptive"].cars
        tracked == CarIndex(cars, sensorSystem["adaptive"].waitingCars[d])
    IN  /\ tracked \in WaitingInZone(d)
        /\ \A i \in WaitingInZone(d) : ~IsCarCloserToStopLine(cars[i], cars[tracked], d)

\* The elapsed wait of a car at a Car.updateState that leaves it waiting:
\* Date.now() - waitStartTime, which is the span if the wait had begun
\* before and 0 if it begins in this call.
ElapsedWait(before, span) == IF before.waitStartTime THEN span ELSE 0

\* C30: after an adaptive update, on every red approach with a waiting
\* vehicle inside its zone the tracked vehicle is the waiting in-zone vehicle
\* closest to the stop line, and the reported wait time is that vehicle's
\* elapsed wait, the time since it began its current wait.
C30_ElapsedWaitReported ==
    /\ [](mode = "adaptive"
            => \A d \in DIRECTIONS :
                  adaptiveLights[d] = "red" /\ WaitingInZone(d) # {}
                      => TrackedIsClosest(d))
    /\ [][ \A span \in WaitSpans :
              ( /\ mode = "adaptive"
                /\ \E deltaTime \in SensorDeltaTimes :
                      \E reading \in [1..Len(carManager[mode].cars) -> Readings] :
                          SensorFrame(deltaTime, reading, span) )
              => \A d \in DIRECTIONS :
                    LET id == sensorSystem'["adaptive"].waitingCars[d]
                        i == CarIndex(carManager["adaptive"].cars, id)
                    IN  id # 0
                          => sensorSystem'["adaptive"].sensorData[d].waitTime
                                = ElapsedWait(carManager["adaptive"].cars[i], span) ]_vars


(***************************************************************************)
(* SimulationLoop: the physics tick                                        *)
(***************************************************************************)
InflowRoads == {0, 1, 2, 4}

\* updateVehicleInflow's flows, in vehicles per hour, by entrance road.
Flows == [r \in InflowRoads |->
            CASE r = 0 -> 1200 [] r = 1 -> 1000 [] r = 2 -> 800 [] r = 4 -> 800]

\* selectRoute(routeOptions) for the random number rnd (thousandths).
SelectRoute(routeOptions, tp, rnd) ==
    IF rnd < tp.STRAIGHT THEN routeOptions[1]
    ELSE IF rnd < tp.STRAIGHT + tp.RIGHT THEN routeOptions[2]
    ELSE routeOptions[3]

\* Road.canSpawnVehicle(newVeh).
CanSpawnVehicle(veh, newVeh) ==
    \A i \in 1..Len(veh) :
        ~(veh[i].lane = newVeh.lane /\ Abs(veh[i].u - newVeh.u) < SpawnZone)

\* updateBCup that takes the vehicle off the counter also when the spawn is
\* rejected.
UpdateBCupConsuming(road, flow, route, d) ==
    LET buffer == road.inVehBuffer + flow * PhysicsDt
        newVeh == CreateVehicle(route, d)
    IN  IF buffer >= BufferUnit
        THEN [veh |-> IF CanSpawnVehicle(road.veh, newVeh)
                      THEN Append(road.veh, newVeh) ELSE road.veh,
              inVehBuffer |-> buffer - BufferUnit]
        ELSE [road EXCEPT !.inVehBuffer = buffer]

\* Road.updateBCup(flow, dt, [route]); the buffer counts 1/216000 of a
\* vehicle, so that flow * dt / 3600 with dt = 7/60 s is flow * 7.
UpdateBCup(road, flow, route, d) ==
    LET buffer == road.inVehBuffer + flow * PhysicsDt
        newVeh == CreateVehicle(route, d)
    IN  IF buffer >= BufferUnit /\ CanSpawnVehicle(road.veh, newVeh)
        THEN [veh |-> Append(road.veh, newVeh), inVehBuffer |-> buffer - BufferUnit]
        ELSE [road EXCEPT !.inVehBuffer = buffer]

\* Whether updateBCup reaches createVehicle on road r in the next tick.
SpawnDue(net, r) == net[r].inVehBuffer + Flows[r] * PhysicsDt >= BufferUnit

\* SimulationLoop.updateVehicleInflow(dt); draws[r] holds the random values
\* used for road r.
UpdateVehicleInflow(net, tp, draws) ==
    [r \in DOMAIN net |->
        IF r \in InflowRoads
        THEN UpdateBCup(net[r], Flows[r], SelectRoute(Routes[r], tp, draws[r].rnd),
                        draws[r])
        ELSE net[r]]

\* SimulationLoop.enforceLaneAssignments, for one vehicle of road r.
EnforceLaneAssignment(r, v) ==
    LET t == TrajAlt(r)
        flagged ==
            /\ Len(v.route) > 1
            /\ \E k \in 1..Len(t) :
                  /\ t[k].roadID = v.route[2]
                  /\ t[k].umin - v.u < LANE_CHANGE_DISTANCE
                  /\ t[k].umin - v.u > 0
                  /\ \/ (t[k].turnType = "left" /\ v.lane # 0)
                     \/ (t[k].turnType = "right" /\ v.lane # NLanes - 1)
    IN  IF flagged THEN [v EXCEPT !.mandatoryLaneChange = TRUE] ELSE v

EnforceLaneAssignments(net) ==
    [r \in DOMAIN net |->
        [net[r] EXCEPT !.veh = [i \in 1..Len(@) |-> EnforceLaneAssignment(r, @[i])]]]

RECURSIVE ProcessConnectionsFrom(_, _)
ProcessConnectionsFrom(net, r) ==
    IF r > 5 THEN net
    ELSE ProcessConnectionsFrom(ProcessConnections(net, r), r + 1)

\* SimulationLoop.cleanupVehicles.
CleanupVehicles(net) ==
    [r \in DOMAIN net |-> [net[r] EXCEPT !.veh = SelectSeq(@, OnRoad)]]

\* The three per-road passes of updatePhysics: calcAccelerations,
\* changeLanes and updateSpeedPositions on every road.
CalcAccelerationsAll(net) ==
    [r \in DOMAIN net |-> [net[r] EXCEPT !.veh = CalcAccelerations(@)]]
ChangeLanesAll(net) ==
    [r \in DOMAIN net |-> [net[r] EXCEPT !.veh = ChangeLanes(r, @)]]
UpdateSpeedPositionsAll(net) ==
    [r \in DOMAIN net |-> [net[r] EXCEPT !.veh = UpdateSpeedPositions(@)]]

\* SimulationLoop.updatePhysics(dt): accelerations, inflow, connections,
\* lane assignments, lane changes, speeds and positions, cleanup.
UpdatePhysics(net, tp, draws) ==
    CleanupVehicles(
      UpdateSpeedPositionsAll(
        ChangeLanesAll(
          EnforceLaneAssignments(
            ProcessConnectionsFrom(
              UpdateVehicleInflow(CalcAccelerationsAll(net), tp, draws), 0)))))

\* The random values of one created vehicle; where no vehicle is due the
\* values are not looked at.
InflowDraws ==
    [rnd : {300, 700, 900}, id : {1, 2}, lane : 0..(NLanes - 1),
     speed : {SpeedInit}, driverfactor : {1000}]
NoDraw == [rnd |-> 0, id |-> 0, lane |-> 0, speed |-> 0, driverfactor |-> 1000]

\* The random values updateBCup may use on road r in the next tick.
DrawsFor(net, r) == IF SpawnDue(net, r) THEN InflowDraws ELSE {NoDraw}

\* The networks one updatePhysics call can produce.
TickResults(net, tp) ==
    { UpdatePhysics(net, tp,
          [r \in InflowRoads |->
              CASE r = 0 -> d0 [] r = 1 -> d1 [] r = 2 -> d2 [] r = 4 -> d4]) :
        d0 \in DrawsFor(net, 0), d1 \in DrawsFor(net, 1),
        d2 \in DrawsFor(net, 2), d4 \in DrawsFor(net, 4) }

\* The networks n successive updatePhysics calls can produce.
RECURSIVE TicksResults(_, _, _)
TicksResults(net, tp, n) ==
    IF n = 0 THEN {net}
    ELSE UNION { TicksResults(m, tp, n - 1) : m \in TickResults(net, tp) }

(***************************************************************************)
(* SimulationLoop: start, stop, gameLoop, reset, setTurnProbabilities.     *)
(* Clock time is counted in sixtieths of a second: the timestep 3.5/30 s   *)
(* is 7, the frame cap of 50 ms is 3.                                      *)
(***************************************************************************)
MaxFrameTime == 3
MaxIterations == 5
FrameTimes == {1, 2, 15}
MaxTicks == 27

\* A handle requestAnimationFrame can return: not one still pending and
\* not the one that has just fired or is stored.
NewHandle(pending, last) ==
    CHOOSE h \in 1..(Cardinality(pending) + 2) :
        /\ h \notin pending /\ h # last
        /\ \A g \in 1..(h - 1) : g \in pending \/ g = last

\* start() without its early return.
SimStartUnguarded ==
    LET h == NewHandle(rafQueue, animationFrameId)
    IN  /\ isRunning' = TRUE
        /\ animationFrameId' = h
        /\ rafQueue' = rafQueue \cup {h}
        /\ UNCHANGED <<signalVars, engineVars, network, accumulator,
                       totalSimulationTime, trafficDemand, TURN_PROBABILITIES,
                       physicsTicks, resetCleared>>

\* SimulationLoop.start().
SimStart ==
    IF isRunning THEN UNCHANGED vars
    ELSE LET h == NewHandle(rafQueue, animationFrameId)
         IN  /\ isRunning' = TRUE
             /\ animationFrameId' = h
             /\ rafQueue' = rafQueue \cup {h}
             /\ UNCHANGED <<signalVars, engineVars, network, accumulator,
                            totalSimulationTime, trafficDemand, TURN_PROBABILITIES,
                            physicsTicks, resetCleared>>

\* stop() that also clears the accumulator.
SimStopClearing ==
    /\ isRunning' = FALSE
    /\ animationFrameId' = 0
    /\ rafQueue' = rafQueue \ {animationFrameId}
    /\ accumulator' = 0
    /\ UNCHANGED <<signalVars, engineVars, network, totalSimulationTime,
                   trafficDemand, TURN_PROBABILITIES, physicsTicks, resetCleared>>

\* SimulationLoop.stop(); animationFrameId 0 stands for null.
SimStop ==
    /\ isRunning' = FALSE
    /\ animationFrameId' = 0
    /\ rafQueue' = rafQueue \ {animationFrameId}
    /\ UNCHANGED <<signalVars, engineVars, network, accumulator,
                   totalSimulationTime, trafficDemand, TURN_PROBABILITIES,
                   physicsTicks, resetCleared>>

\* The frame time without the cap.
FrameTimeUncapped(elapsed) == elapsed

\* gameLoop's frameTime for the time elapsed since the last frame.
FrameTime(elapsed) == Min(elapsed, MaxFrameTime)

\* The number of iterations rounded up: a tick is run on a started timestep.
PhysicsIterationsRoundUp(acc) ==
    Min((acc + PhysicsDt - 1) \div PhysicsDt, MaxIterations)

\* The loop with > in place of >=: an accumulator of exactly one timestep
\* runs no tick.
PhysicsIterationsStrict(acc) ==
    IF acc > PhysicsDt THEN Min(acc \div PhysicsDt, MaxIterations) ELSE 0

\* gameLoop's number of physics iterations for an accumulator value.
PhysicsIterations(acc) == Min(acc \div PhysicsDt, MaxIterations)

\* SimulationLoop.gameLoop(currentTimestamp), run by the browser for the
\* pending callback h.
GameLoop(h, elapsed) ==
    /\ h \in rafQueue
    /\ IF ~isRunning
       THEN /\ rafQueue' = rafQueue \ {h}
            /\ UNCHANGED <<signalVars, engineVars, network, isRunning,
                           animationFrameId, accumulator, totalSimulationTime,
                           trafficDemand, TURN_PROBABILITIES, physicsTicks,
                           resetCleared>>
       ELSE LET acc == accumulator + FrameTime(elapsed)
                n == PhysicsIterations(acc)
                g == NewHandle(rafQueue \ {h}, h)
            IN  /\ physicsTicks + n <= MaxTicks
                /\ network' \in TicksResults(network, TURN_PROBABILITIES, n)
                /\ accumulator' = acc - n * PhysicsDt
                /\ totalSimulationTime' = totalSimulationTime + n * PhysicsDt
                /\ physicsTicks' = physicsTicks + n
                /\ animationFrameId' = g
                /\ rafQueue' = (rafQueue \ {h}) \cup {g}
                /\ UNCHANGED <<signalVars, engineVars, isRunning, trafficDemand,
                               TURN_PROBABILITIES, resetCleared>>

\* Road.reset() that forgets to drop the vehicles.
RoadResetBufferOnly(road) == [road EXCEPT !.inVehBuffer = 0]

\* Road.reset().
RoadReset(road) == [veh |-> <<>>, inVehBuffer |-> 0]

\* SimulationLoop.reset().
SimReset ==
    /\ network' = [r \in DOMAIN network |-> RoadReset(network[r])]
    /\ totalSimulationTime' = 0
    /\ accumulator' = 0
    /\ physicsTicks' = 0
    /\ resetCleared' = IF \E r \in DOMAIN network : network[r].veh # <<>>
                       THEN "vehicles" ELSE "empty"
    /\ UNCHANGED <<signalVars, engineVars, isRunning, animationFrameId, rafQueue,
                   trafficDemand, TURN_PROBABILITIES>>

\* setTurnProbabilities that accepts only a sum of exactly 1.0.
TurnProbabilitiesAfterExact(tp, straight, right, left) ==
    IF straight + right + left = 1000
    THEN [STRAIGHT |-> straight, RIGHT |-> right, LEFT |-> left]
    ELSE tp

\* CONFIG.TURN_PROBABILITIES after setTurnProbabilities(straight, right,
\* left); thousandths, so the tolerance 0.01 is 10.
TurnProbabilitiesAfter(tp, straight, right, left) ==
    IF Abs(straight + right + left - 1000) < 10
    THEN [STRAIGHT |-> straight, RIGHT |-> right, LEFT |-> left]
    ELSE tp

\* SimulationLoop.setTurnProbabilities(straight, right, left).
SetTurnProbabilities(straight, right, left) ==
    /\ TURN_PROBABILITIES' =
          TurnProbabilitiesAfter(TURN_PROBABILITIES, straight, right, left)
    /\ UNCHANGED <<signalVars, engineVars, network, isRunning, animationFrameId,
                   rafQueue, accumulator, totalSimulationTime, trafficDemand,
                   physicsTicks, resetCleared>>

\* SimulationLoop.setTrafficDemand(eastbound, westbound, northbound,
\* southbound), in vehicles per hour.
SetTrafficDemand(eastbound, westbound, northbound, southbound) ==
    /\ trafficDemand' = [eastbound |-> eastbound, westbound |-> westbound,
                         northbound |-> northbound, southbound |-> southbound]
    /\ UNCHANGED <<signalVars, engineVars, network, isRunning, animationFrameId,
                   rafQueue, accumulator, totalSimulationTime, TURN_PROBABILITIES,
                   physicsTicks, resetCleared>>

\* Demands handed to setTrafficDemand: half the rates updateVehicleInflow
\* starts with.
DemandInputs ==
    { [eastbound |-> 600, westbound |-> 500, northbound |-> 400, southbound |-> 400] }

StraightInputs == {500, 600}
RightInputs == {250, 300}
LeftInputs == {150, 155, 200}

\* A car of the adaptive mode waiting at the north approach, 40 m before
\* the centre, with one earlier wait behind it.
SensedCar ==
    [NewCar(1, "north", 0, 1000, 1000) EXCEPT
        !.u = 60000, !.state = "waiting", !.waitStartTime = TRUE,
        !.totalWaitTime = MaxWaitTime]

\* The adaptive mode after a GameEngine.update with that car: lights
\* updated, car sensed, scores computed.
EngineAfterSensing ==
    LET c == UpdateAdaptive(AdaptiveController0, 1000, ShortSettings)
        w == SensorUpdate(SensorSystem0, <<SensedCar>>, TRUE, c.lights, c.lights)
    IN  [st |-> UpdateAdaptiveLogic(c.st, w.ss.sensorData), lights |-> c.lights,
         ss |-> w.ss, cars |-> w.cars]

\* The clock as constructed, beside an engine that is either as constructed
\* or has run in adaptive mode.
InitClock ==
    /\ \/ EngineInit("fixed", ShortSettings) /\ SignalInit
       \/ \E e \in {EngineAfterSensing} :
             /\ mode = "adaptive" /\ settings = ShortSettings
             /\ prevLightStates = e.lights
             /\ carManager = [x \in MODES |->
                                IF x = "adaptive"
                                THEN [cars |-> e.cars, nextId |-> 2, lastSpawnTime |-> 0]
                                ELSE CarManager0]
             /\ sensorSystem = [x \in MODES |->
                                  IF x = "adaptive" THEN e.ss ELSE SensorSystem0]
             /\ statistics = [x \in MODES |-> Statistics0]
             /\ fixedState = FixedController0.st
             /\ fixedLights = FixedController0.lights
             /\ adaptiveState = e.st
             /\ adaptiveLights = e.lights
             /\ fixedElapsed = 0 /\ fixedExact = TRUE
    /\ ClockInit
    /\ network = Network0

NextClock ==
    \/ SimStart
    \/ SimStop
    \/ \E h \in rafQueue, elapsed \in FrameTimes : GameLoop(h, elapsed)
    \/ SimReset
    \/ \E straight \in StraightInputs, right \in RightInputs, left \in LeftInputs :
          SetTurnProbabilities(straight, right, left)
    \/ \E d \in DemandInputs :
          SetTrafficDemand(d.eastbound, d.westbound, d.northbound, d.southbound)

SpecClock == InitClock /\ [][NextClock]_vars

SumOf(straight, right, left) == straight + right + left

\* C5 as stated: a call whose arguments do not sum to 1.0 changes none of
\* the three turn probabilities, a call whose arguments sum to 1.0 replaces
\* all three.
C5_ExactSumOnly ==
    [][ \A straight \in StraightInputs, right \in RightInputs, left \in LeftInputs :
          SetTurnProbabilities(straight, right, left)
          => /\ SumOf(straight, right, left) # 1000
                   => TURN_PROBABILITIES' = TURN_PROBABILITIES
             /\ SumOf(straight, right, left) = 1000
                   => TURN_PROBABILITIES' =
                         [STRAIGHT |-> straight, RIGHT |-> right, LEFT |-> left] ]_vars

\* C5, amended: a call whose arguments sum to 1.0 within less than 0.01
\* replaces all three turn probabilities, any other call changes none.
C5_SumWithinTolerance ==
    /\ [](\A straight \in StraightInputs, right \in RightInputs, left \in LeftInputs :
            LET after == TurnProbabilitiesAfter(TURN_PROBABILITIES, straight, right, left)
            IN  IF Abs(SumOf(straight, right, left) - 1000) < 10
                THEN after = [STRAIGHT |-> straight, RIGHT |-> right, LEFT |-> left]
                ELSE after = TURN_PROBABILITIES)
    /\ [][ \A straight \in StraightInputs, right \in RightInputs, left \in LeftInputs :
             SetTurnProbabilities(straight, right, left)
             => /\ Abs(SumOf(straight, right, left) - 1000) >= 10
                      => TURN_PROBABILITIES' = TURN_PROBABILITIES
                /\ Abs(SumOf(straight, right, left) - 1000) < 10
                      => TURN_PROBABILITIES' =
                            [STRAIGHT |-> straight, RIGHT |-> right, LEFT |-> left] ]_vars

\* A configuration whose sum is 1.005 has been accepted.
C5_Witness ==
    /\ TURN_PROBABILITIES.STRAIGHT + TURN_PROBABILITIES.RIGHT
          + TURN_PROBABILITIES.LEFT = 1005
    /\ TURN_PROBABILITIES # TurnProbabilities0

RoadsEmpty(net) == \A r \in DOMAIN net : net[r].veh = <<>>

\* C6 as stated: after the clock's reset() the time and the accumulator are
\* 0, every road is empty, and the signal controllers and the sensors are
\* in their initial state.
C6_ResetRestoresEngine ==
    [][ SimReset
        => /\ totalSimulationTime' = 0 /\ accumulator' = 0 /\ RoadsEmpty(network')
           /\ fixedState' = FixedController0.st
           /\ fixedLights' = FixedController0.lights
           /\ adaptiveState' = AdaptiveController0.st
           /\ adaptiveLights' = AdaptiveController0.lights
           /\ sensorSystem' = [x \in MODES |-> SensorSystem0] ]_vars

\* C6, amended: after the clock's reset() the time and the accumulator are
\* 0 and every road is empty; the signal controllers and the sensors are
\* left as they were.
C6_ResetClearsClockAndRoads ==
    [][ SimReset
        => /\ totalSimulationTime' = 0 /\ accumulator' = 0 /\ RoadsEmpty(network')
           /\ UNCHANGED <<fixedState, fixedLights, adaptiveState, adaptiveLights,
                          sensorSystem>> ]_vars

\* A reset that cleared vehicles off the roads has just run, beside an
\* engine that is not in its initial state.
C6_Witness ==
    /\ resetCleared = "vehicles"
    /\ totalSimulationTime = 0 /\ accumulator = 0 /\ RoadsEmpty(network)
    /\ adaptiveState # AdaptiveController0.st
    /\ sensorSystem["adaptive"] # SensorSystem0

\* C7: start() and stop() leave the total time, the accumulator and every
\* road's vehicles unchanged, in every state.
C7_StartStopKeepState ==
    [][ (SimStart \/ SimStop)
        => UNCHANGED <<totalSimulationTime, accumulator, network>> ]_vars

\* The clock has been stopped with time on the clock, a part of a timestep
\* in the accumulator and vehicles on the roads.
C7_Witness ==
    /\ ~isRunning
    /\ totalSimulationTime > 0 /\ accumulator > 0 /\ ~RoadsEmpty(network)

\* C8: a physics tick happens only while the clock is running, a stopped
\* clock has no frame callback pending, and at most one is pending at any
\* time.
C8_StopHaltsTicks ==
    [][ /\ physicsTicks' > physicsTicks => isRunning
        /\ ~isRunning' => rafQueue' = {}
        /\ Cardinality(rafQueue') <= 1 ]_vars

\* The clock has ticked and has then been stopped, its callback cancelled.
C8_Witness ==
    /\ ~isRunning /\ rafQueue = {} /\ animationFrameId = 0
    /\ physicsTicks > 0 /\ resetCleared = "never"

\* C9: the total time is the number of ticks since the last reset times
\* the timestep; a step that changes it adds one timestep or is a reset.
C9_TimeInTimesteps ==
    /\ totalSimulationTime = physicsTicks * PhysicsDt
    /\ [][ /\ totalSimulationTime' = physicsTicks' * PhysicsDt
           /\ totalSimulationTime' # totalSimulationTime
                 => \/ totalSimulationTime' = totalSimulationTime + PhysicsDt
                    \/ SimReset ]_vars

\* Two ticks have run since a reset.
C9_Witness ==
    /\ resetCleared # "never"
    /\ physicsTicks = 2 /\ totalSimulationTime = 2 * PhysicsDt

\* C31: a frame of the running clock adds min(elapsed, 50 ms) to the
\* accumulator and runs k ticks, k the largest number <= 5 with
\* k timesteps <= accumulator: at most 5 ticks, no tick on less than one
\* timestep, and accumulator' = accumulator + added - k x timestep.
C31_FrameTicks ==
    [][ \A h \in rafQueue, elapsed \in FrameTimes :
          isRunning /\ GameLoop(h, elapsed)
          => LET added == IF elapsed < MaxFrameTime THEN elapsed ELSE MaxFrameTime
                 k == physicsTicks' - physicsTicks
             IN  /\ k >= 0 /\ k <= 5
                 /\ k * PhysicsDt <= accumulator + added
                 /\ k = 5 \/ (k + 1) * PhysicsDt > accumulator + added
                 /\ accumulator' = accumulator + added - k * PhysicsDt
                 /\ totalSimulationTime' = totalSimulationTime + k * PhysicsDt ]_vars

\* The running clock has run ticks and holds a part of a timestep.
C31_Witness ==
    /\ isRunning /\ physicsTicks >= 2
    /\ accumulator > 0
    /\ totalSimulationTime = physicsTicks * PhysicsDt

DemandOf(r) ==
    CASE r = 0 -> trafficDemand.eastbound
      [] r = 1 -> trafficDemand.westbound
      [] r = 2 -> trafficDemand.northbound
      [] r = 4 -> trafficDemand.southbound

\* C15: once setTrafficDemand has been called, every physics tick grows the
\* inflow buffer of each entrance road by the demanded flow times the
\* timestep (less one vehicle when one is spawned).
C15_DemandSetsInflow ==
    [][ (DOMAIN trafficDemand # {} /\ physicsTicks' = physicsTicks + 1)
        => \A r \in InflowRoads :
              LET grown == network[r].inVehBuffer + DemandOf(r) * PhysicsDt
              IN  network'[r].inVehBuffer \in {grown, grown - BufferUnit} ]_vars

(***************************************************************************)
(* GameEngine.update: lights, Intersection.update, CarManager.update with  *)
(* each Car's synchronisation with its road, sensors, statistics.          *)
(***************************************************************************)
CAR_SPAWN_RATE == 4
MaxCars == 2
EngineDeltaTimes == {4}

\* The spawn interval of CarManager.update, in ms.
SpawnInterval == 1000 \div CAR_SPAWN_RATE

\* The first index of the vehicle with the given id (0 if there is none):
\* Array.find and findIndex return the first match.
VehIndex(veh, id) ==
    IF \E i \in 1..Len(veh) : veh[i].id = id
    THEN CHOOSE i \in 1..Len(veh) :
            veh[i].id = id /\ \A j \in 1..(i - 1) : veh[j].id # id
    ELSE 0

\* The roadVehicle object Car.update pushes onto its road.
RoadVehicle(car) ==
    [id |-> car.id, route |-> car.route, u |-> car.u, lane |-> car.lane,
     laneOld |-> car.laneOld,
     speed |-> car.speed, acc |-> car.acc, dt_afterLC |-> car.dt_afterLC,
     mandatoryLaneChange |-> car.mandatoryLaneChange,
     tacticalLaneChange |-> FALSE, driverfactor |-> car.driverfactor]

\* Car.update(deltaTime, lightStates): the network and the car afterwards.
CarUpdate(net, car, span) ==
    LET veh0 == net[car.roadId].veh
        veh == IF VehIndex(veh0, car.id) = 0
               THEN Append(veh0, RoadVehicle(car)) ELSE veh0
        roadVeh == veh[VehIndex(veh, car.id)]
    IN  [net |-> [net EXCEPT ![car.roadId].veh = veh],
         car |-> UpdateState(
                    [car EXCEPT !.u = roadVeh.u, !.lane = roadVeh.lane,
                                !.laneOld = roadVeh.laneOld,
                                !.speed = roadVeh.speed, !.acc = roadVeh.acc,
                                !.dt_afterLC = roadVeh.dt_afterLC,
                                !.mandatoryLaneChange = roadVeh.mandatoryLaneChange],
                    span)]

RemoveAt(seq, i) == SubSeq(seq, 1, i - 1) \o SubSeq(seq, i + 1, Len(seq))

\* Car.destroy(): the car's road without the first vehicle of its id.
CarDestroy(net, car) ==
    LET index == VehIndex(net[car.roadId].veh, car.id)
    IN  IF index = 0 THEN net
        ELSE [net EXCEPT ![car.roadId].veh = RemoveAt(@, index)]

\* Statistics.recordCarCompletion(car).
RecordCarCompletion(st, car) ==
    LET waitTime == GetWaitTime(car)
    IN  [st EXCEPT !.totalCarsPassed = @ + 1,
                   !.totalWaitTime = IF waitTime > 0 THEN @ + waitTime ELSE @,
                   !.waitTimes = IF waitTime > 0 THEN Append(@, waitTime) ELSE @]

\* The loop of CarManager.update over cars[i], cars[i-1], ..., cars[1];
\* w is [net, cars, stats].
RECURSIVE UpdateCarsFrom(_, _, _)
UpdateCarsFrom(w, i, span) ==
    IF i = 0 THEN w
    ELSE LET r == CarUpdate(w.net, w.cars[i], span)
         IN  IF r.car.state = "completed"
             THEN UpdateCarsFrom([net |-> CarDestroy(r.net, r.car),
                                  cars |-> RemoveAt(w.cars, i),
                                  stats |-> RecordCarCompletion(w.stats, r.car)],
                                 i - 1, span)
             ELSE UpdateCarsFrom([net |-> r.net,
                                  cars |-> [w.cars EXCEPT ![i] = r.car],
                                  stats |-> w.stats],
                                 i - 1, span)

\* Whether CarManager.update spawns a car this time.
CarSpawnDue(cm, deltaTime) == cm.lastSpawnTime + deltaTime >= SpawnInterval

\* CarManager.update(deltaTime, lightStates) with spawnCar; d holds the
\* values spawnCar and the Car constructor draw.
CarManagerUpdate(cm, net, stats, deltaTime, d, span) ==
    LET due == CarSpawnDue(cm, deltaTime)
        cars == IF due
                THEN Append(cm.cars, NewCar(cm.nextId, d.direction, d.lane,
                                            d.speed, d.driverfactor))
                ELSE cm.cars
        w == UpdateCarsFrom([net |-> net, cars |-> cars, stats |-> stats],
                            Len(cars), span)
    IN  [cm |-> [cars |-> w.cars,
                 nextId |-> IF due THEN cm.nextId + 1 ELSE cm.nextId,
                 lastSpawnTime |-> IF due THEN 0 ELSE cm.lastSpawnTime + deltaTime],
         net |-> w.net, stats |-> w.stats]

\* The values drawn for a spawned car; the speed is the middle of its range.
CarDraws ==
    [direction : DIRECTIONS, lane : 0..(NLanes - 1),
     speed : {CarSpeedInit}, driverfactor : {1000}]
NoCarDraw == [direction |-> "north", lane |-> 0, speed |-> 0, driverfactor |-> 1000]

\* GameEngine.update(deltaTime).
EngineUpdate(deltaTime, d, span) ==
    LET fixed == mode = "fixed"
        c == IF fixed THEN UpdateFixed(FixedCtl, deltaTime, settings)
             ELSE UpdateAdaptive(AdaptiveCtl, deltaTime, settings)
        fires == c.st.currentPhase # fixedState.currentPhase
        t == fixedState.phaseTimer + deltaTime
        m == CarManagerUpdate(carManager[mode], IntersectionStep(network),
                              statistics[mode], deltaTime, d, span)
        w == SensorUpdate(sensorSystem[mode], m.cm.cars, ~fixed, c.lights, PrevLights)
    IN  /\ IF CarSpawnDue(carManager[mode], deltaTime)
           THEN d # NoCarDraw /\ carManager[mode].nextId <= MaxCars
           ELSE d = NoCarDraw
        /\ IF fixed
           THEN /\ fixedState' = c.st
                /\ fixedLights' = c.lights
                /\ fixedElapsed' = Min(fixedElapsed + deltaTime, ElapsedCap)
                /\ fixedExact' = (fixedExact /\
                      (fires => t = FixedPhaseDuration(fixedState.currentPhase, settings)))
                /\ UNCHANGED <<adaptiveState, adaptiveLights>>
           ELSE /\ adaptiveState' = UpdateAdaptiveLogic(c.st, w.ss.sensorData)
                /\ adaptiveLights' = c.lights
                /\ UNCHANGED <<fixedState, fixedLights, fixedElapsed, fixedExact>>
        /\ network' = m.net
        /\ carManager' = [carManager EXCEPT ![mode] = [m.cm EXCEPT !.cars = w.cars]]
        /\ sensorSystem' = [sensorSystem EXCEPT ![mode] = w.ss]
        /\ prevLightStates' = c.lights
        /\ statistics' = [statistics EXCEPT
                            ![mode] = [m.stats EXCEPT !.currentCars = Len(w.cars)]]
        /\ UNCHANGED <<mode, settings, clockVars>>

InitEngine ==
    /\ \E m \in MODES : EngineInit(m, ShortSettings)
    /\ SignalInit /\ ClockInit
    /\ network = Network0

NextEngine ==
    \E deltaTime \in EngineDeltaTimes, d \in CarDraws \cup {NoCarDraw}, span \in WaitSpans :
        EngineUpdate(deltaTime, d, span)

SpecEngine == InitEngine /\ [][NextEngine]_vars

\* The number of vehicles with the given id on all six roads together.
RECURSIVE EntriesFrom(_, _, _)
EntriesFrom(net, id, r) ==
    IF r > 5 THEN 0
    ELSE Cardinality({i \in 1..Len(net[r].veh) : net[r].veh[i].id = id})
         + EntriesFrom(net, id, r + 1)

VehicleIds(net) == UNION { {net[r].veh[i].id : i \in 1..Len(net[r].veh)} : r \in DOMAIN net }

\* C10 as stated: every vehicle id has at most one entry across the vehicle
\* lists of the six roads.
C10_OneEntryPerVehicle ==
    \A id \in VehicleIds(network) : EntriesFrom(network, id, 0) <= 1

\* A car's vehicle has been transferred to its exit road while a copy of it
\* is on the road it came from.
C10_CopyLeftBehind ==
    \E i \in 1..Len(carManager[mode].cars) :
        LET car == carManager[mode].cars[i]
        IN  /\ Connects(car.roadId) # <<>>
            /\ Connects(car.roadId)[1].targetRoad # car.roadId
            /\ VehIndex(network[car.roadId].veh, car.id) # 0
            /\ VehIndex(network[Connects(car.roadId)[1].targetRoad].veh, car.id) # 0

(***************************************************************************)
(* The application (TrafficSimulator): the browser runs two frame          *)
(* callbacks on the same Intersection, SimulationLoop.gameLoop and the     *)
(* game loop that calls GameEngine.update, in any interleaving.            *)
(***************************************************************************)
\* deltaTime of the engine's frames (ms) and the time between the clock's
\* frames (sixtieths of a second).
AppDeltaTimes == {250}
AppFrameTimes == {15}
AppCarDraws == {d \in CarDraws : d.lane = 0 /\ d.direction = "north"}

InitApp == InitEngine

NextApp ==
    \/ SimStart
    \/ \E h \in rafQueue, elapsed \in AppFrameTimes : GameLoop(h, elapsed)
    \/ \E deltaTime \in AppDeltaTimes, d \in AppCarDraws \cup {NoCarDraw},
          span \in WaitSpans : EngineUpdate(deltaTime, d, span)

SpecApp == InitApp /\ [][NextApp]_vars

\* C16: the road network, the signal controllers and the detection state
\* change only in steps in which the clock runs a physics tick, and every
\* physics tick advances the active signal controller (its phase timer)
\* along with the road network; so the passes of each are as many as the
\* clock's ticks.
C16_ClockAloneAdvances ==
    [][ /\ (physicsTicks' = physicsTicks)
            => UNCHANGED <<network, fixedState, fixedLights, adaptiveState,
                           adaptiveLights, sensorSystem>>
        /\ (physicsTicks' = physicsTicks + 1 /\ mode = "fixed")
            => fixedState'.phaseTimer # fixedState.phaseTimer ]_vars

\* The clock has not run a tick, yet the fixed controller's timer has
\* advanced and a vehicle is on the network.
C16_AdvancedWithoutTick ==
    /\ physicsTicks = 0
    /\ mode = "fixed" /\ fixedState.phaseTimer > 0
    /\ ~RoadsEmpty(network)

\* The vehicles of road r after the step whose id was on no road before it:
\* the vehicles the step has created.
NewOnRoad(r) ==
    { j \in 1..Len(network'[r].veh) :
        \A q \in DOMAIN network : \A i \in 1..Len(network[q].veh) :
            network[q].veh[i].id # network'[r].veh[j].id }

\* C34: no vehicle is added to a road while another vehicle of its lane is
\* within the spawn clearance of its spawn position.  The inflow of a tick
\* adds its vehicle at SpawnU before any vehicle moves, so the others are
\* where the step found them; the car manager adds its cars after the
\* engine's pass over the roads, so the others are where the step leaves
\* them.
C34_SpawnClearance ==
    [][ \A r \in DOMAIN network : \A j \in NewOnRoad(r) :
          LET v == network'[r].veh[j]
          IN  IF physicsTicks' # physicsTicks
              THEN \A i \in 1..Len(network[r].veh) :
                      ~(/\ network[r].veh[i].lane = v.lane
                        /\ Abs(network[r].veh[i].u - SpawnU) < SpawnZone)
              ELSE \A k \in 1..Len(network'[r].veh) :
                      k # j => ~(/\ network'[r].veh[k].lane = v.lane
                                /\ Abs(network'[r].veh[k].u - v.u) < SpawnZone) ]_vars

\* The car manager's second car has just been put on the northbound
\* approach at its spawn position, in the lane of the first and less than
\* the spawn clearance behind it.
C34_SpawnedIntoClearance ==
    /\ Len(network[2].veh) = 2
    /\ network[2].veh[2].u = CarSpawnU
    /\ network[2].veh[1].lane = network[2].veh[2].lane
    /\ Abs(network[2].veh[1].u - network[2].veh[2].u) < SpawnZone

(***************************************************************************)
(* The clock's tick with a vehicle close to the connection point of its    *)
(* road: a vehicle as createVehicle makes it, further down the road.       *)
(***************************************************************************)
ApproachRoads == {0, 2, 4}
ApproachPositions == {188000, 189900}
ApproachSpeeds == {8000, 15000}

InitApproach ==
    /\ EngineInit("fixed", ShortSettings) /\ SignalInit /\ ClockInit
    /\ \E r \in ApproachRoads, k \in 1..3, u \in ApproachPositions,
          v \in ApproachSpeeds :
          network = [Network0 EXCEPT ![r].veh =
              <<[CreateVehicle(Routes[r][k],
                     [id |-> 1, lane |-> 0, speed |-> v, driverfactor |-> 1000])
                  EXCEPT !.u = u]>>]

NextApproach ==
    \/ SimStart
    \/ \E h \in rafQueue, elapsed \in FrameTimes : GameLoop(h, elapsed)

SpecApproach == InitApproach /\ [][NextApproach]_vars

\* A vehicle of road r that the road's connection takes (its route says so)
\* and that is at or beyond the connection's source offset.
DueForTransfer(net, r) ==
    { i \in 1..Len(net[r].veh) :
        /\ Connects(r) # <<>>
        /\ ShouldUseConnection(r, net[r].veh[i], Connects(r)[1])
        /\ net[r].veh[i].u >= Connects(r)[1].uSource }

\* C17: in a tick the connection transfer comes after the integration of
\* positions and decides on the u values that integration produced; so at
\* the end of every tick no vehicle that its road's connection takes is
\* still on that road at or beyond the connection's source offset.
C17_TransferAfterIntegration ==
    [][physicsTicks' # physicsTicks
          => \A r \in DOMAIN network : DueForTransfer(network', r) = {}]_vars

\* A tick has ended with a vehicle carried past the connection point by the
\* integration and not transferred.
C17_TransferLags ==
    /\ physicsTicks > 0
    /\ \E r \in DOMAIN network : DueForTransfer(network, r) # {}

(***************************************************************************)
(* The inflow of the clock's tick beside the engine: the clock has run the *)
(* ticks before the first inflow vehicle is due and was stopped, the       *)
(* engine is as constructed and spawns its cars on the eastbound entrance. *)
(***************************************************************************)
\* The ticks an entrance road with the largest flow takes without a vehicle.
TicksBeforeInflow == (BufferUnit - 1) \div (Flows[0] * PhysicsDt)

InflowCarDraws == {d \in CarDraws : d.direction = "east"}

InitInflow ==
    /\ \E m \in MODES : EngineInit(m, ShortSettings)
    /\ SignalInit
    /\ isRunning = FALSE /\ animationFrameId = 0 /\ rafQueue = {}
    /\ accumulator = 0
    /\ physicsTicks = TicksBeforeInflow
    /\ totalSimulationTime = TicksBeforeInflow * PhysicsDt
    /\ trafficDemand = <<>>
    /\ TURN_PROBABILITIES = TurnProbabilities0
    /\ resetCleared = "never"
    /\ network = [r \in 0..5 |->
                    IF r \in InflowRoads
                    THEN [Road0 EXCEPT !.inVehBuffer =
                             TicksBeforeInflow * Flows[r] * PhysicsDt]
                    ELSE Road0]

NextInflow ==
    \/ SimStart
    \/ \E h \in rafQueue, elapsed \in AppFrameTimes : GameLoop(h, elapsed)
    \/ \E deltaTime \in AppDeltaTimes, d \in InflowCarDraws \cup {NoCarDraw},
          span \in WaitSpans : EngineUpdate(deltaTime, d, span)

SpecInflow == InitInflow /\ [][NextInflow]_vars

\* updateBCup on entrance road r of the present network, for the drawn
\* values d: one vehicle is added exactly when the counter with this tick's
\* flow is at least one vehicle and no vehicle of the new one's lane is
\* within the spawn clearance, and the counter loses one vehicle exactly
\* when one is added.
InflowStep(r, d) ==
    LET road == network[r]
        route == SelectRoute(Routes[r], TURN_PROBABILITIES, d.rnd)
        b == road.inVehBuffer + Flows[r] * PhysicsDt
        newVeh == CreateVehicle(route, d)
        after == UpdateBCup(road, Flows[r], route, d)
        added == Len(after.veh) - Len(road.veh)
        blocked == \E i \in 1..Len(road.veh) :
                      /\ road.veh[i].lane = newVeh.lane
                      /\ Abs(road.veh[i].u - newVeh.u) < SpawnZone
    IN  /\ added \in {0, 1}
        /\ added = 1 <=> (b >= BufferUnit /\ ~blocked)
        /\ added = 1 => after.veh = Append(road.veh, newVeh)
        /\ added = 0 => after.veh = road.veh
        /\ after.inVehBuffer = b - added * BufferUnit

\* C33: a tick adds flow x dt / 3600 to an entrance road's counter; a
\* vehicle is added only when the counter is at least 1, at most one per
\* tick, and the counter loses exactly 1 if and only if a vehicle was added
\* (a spawn rejected for lack of clearance leaves it undecreased); the
\* counter is the accumulated flow less the vehicles added, never negative.
C33_InflowAccounting ==
    /\ [](\A r \in InflowRoads :
            /\ \A d \in InflowDraws : InflowStep(r, d)
            /\ network[r].inVehBuffer >= 0
            /\ \E n \in 0..physicsTicks :
                  network[r].inVehBuffer
                      = physicsTicks * Flows[r] * PhysicsDt - n * BufferUnit)
    /\ [][ physicsTicks' = physicsTicks + 1
           => \A r \in InflowRoads :
                 LET b == network[r].inVehBuffer + Flows[r] * PhysicsDt
                 IN  \/ network'[r].inVehBuffer = b
                     \/ /\ network'[r].inVehBuffer = b - BufferUnit
                        /\ b >= BufferUnit ]_vars

\* The eastbound entrance has been refused its vehicle in two ticks (one of
\* the engine's cars stands in the spawn clearance) and its counter still
\* holds the vehicle.
C33_Witness ==
    /\ physicsTicks = TicksBeforeInflow + 2
    /\ network[0].inVehBuffer >= BufferUnit
    /\ network[0].veh # <<>>

(***************************************************************************)
(* The journeys of the cars the car manager spawns, under engine updates   *)
(* that never cease: the game loop asks for its next frame in every frame. *)
(* The first JourneyCars cars are followed; the cars spawnCar adds after   *)
(* them are left out, with the spawn timer still reset as spawnCar's       *)
(* caller does.                                                            *)
(***************************************************************************)
JourneyCars == 1

\* The car manager as GameEngine.update(deltaTime) finds it; once the last
\* car that is followed has been spawned, with the spawn timer such that
\* this update adds no car and leaves the timer at 0, where a spawn leaves
\* it.
TrackedManager(deltaTime) ==
    LET cm == carManager[mode]
    IN  IF CarSpawnDue(cm, deltaTime) /\ cm.nextId > JourneyCars
        THEN [cm EXCEPT !.lastSpawnTime = -deltaTime]
        ELSE cm

\* GameEngine.update(deltaTime) for the cars that are followed: the same
\* steps as EngineUpdate, on the car manager as TrackedManager gives it.
JourneyUpdate(deltaTime, d, span) ==
    LET cm == TrackedManager(deltaTime)
        fixed == mode = "fixed"
        c == IF fixed THEN UpdateFixed(FixedCtl, deltaTime, settings)
             ELSE UpdateAdaptive(AdaptiveCtl, deltaTime, settings)
        fires == c.st.currentPhase # fixedState.currentPhase
        t == fixedState.phaseTimer + deltaTime
        m == CarManagerUpdate(cm, IntersectionStep(network),
                              statistics[mode], deltaTime, d, span)
        w == SensorUpdate(sensorSystem[mode], m.cm.cars, ~fixed, c.lights, PrevLights)
    IN  /\ IF CarSpawnDue(cm, deltaTime)
           THEN d # NoCarDraw /\ cm.nextId <= JourneyCars
           ELSE d = NoCarDraw
        /\ IF fixed
           THEN /\ fixedState' = c.st
                /\ fixedLights' = c.lights
                /\ fixedElapsed' = Min(fixedElapsed + deltaTime, ElapsedCap)
                /\ fixedExact' = (fixedExact /\
                      (fires => t = FixedPhaseDuration(fixedState.currentPhase, settings)))
                /\ UNCHANGED <<adaptiveState, adaptiveLights>>
           ELSE /\ adaptiveState' = UpdateAdaptiveLogic(c.st, w.ss.sensorData)
                /\ adaptiveLights' = c.lights
                /\ UNCHANGED <<fixedState, fixedLights, fixedElapsed, fixedExact>>
        /\ network' = m.net
        /\ carManager' = [carManager EXCEPT ![mode] = [m.cm EXCEPT !.cars = w.cars]]
        /\ sensorSystem' = [sensorSystem EXCEPT ![mode] = w.ss]
        /\ prevLightStates' = c.lights
        /\ statistics' = [statistics EXCEPT
                            ![mode] = [m.stats EXCEPT !.currentCars = Len(w.cars)]]
        /\ UNCHANGED <<mode, settings, clockVars>>

InitJourney ==
    /\ EngineInit("fixed", ShortSettings)
    /\ SignalInit /\ ClockInit
    /\ network = Network0

\* The cars that are followed come from the east and the west.
JourneyCarDraws == {d \in CarDraws : d.direction \in {"east", "west"}}

NextJourney ==
    \E deltaTime \in SensorDeltaTimes, d \in JourneyCarDraws \cup {NoCarDraw},
       span \in WaitSpans : JourneyUpdate(deltaTime, d, span)

\* What GameEngine.update does first, trafficLights.update, seen on the
\* fixed controller alone.
JourneyLights ==
    \E deltaTime \in SensorDeltaTimes :
        LET c == UpdateFixed(FixedCtl, deltaTime, settings)
        IN  fixedState' = c.st /\ fixedLights' = c.lights

\* The game loop asks for its next frame at the end of every frame, so
\* GameEngine.update, and with it the controller's update, is never put off
\* for ever.
SpecJourney ==
    InitJourney /\ [][NextJourney]_vars
    /\ WF_<<fixedState, fixedLights>>(JourneyLights)

\* The car with the given id is in the car list or has a vehicle on a road.
InSystem(id) ==
    \/ \E i \in 1..Len(carManager[mode].cars) : carManager[mode].cars[i].id = id
    \/ id \in VehicleIds(network)

\* C40: under continued engine updates every car the car manager spawns is
\* in time gone from the car list and from every road, and each update
\* raises totalCarsPassed by the number of cars it removes from the list.
C40_EveryCarCompletes ==
    /\ \A id \in 1..JourneyCars : InSystem(id) ~> ~InSystem(id)
    /\ [][ statistics'[mode].totalCarsPassed - statistics[mode].totalCarsPassed
             = Cardinality({id \in 1..JourneyCars :
                  /\ \E i \in 1..Len(carManager[mode].cars) :
                        carManager[mode].cars[i].id = id
                  /\ ~\E i \in 1..Len(carManager'[mode].cars) :
                        carManager'[mode].cars[i].id = id}) ]_vars

\* Every car that is followed has been spawned, one of them is back at
\* the start of its road after it had come to the end of it, and no car
\* has been reported.
C40_CarBackAtStart ==
    /\ carManager[mode].nextId > JourneyCars
    /\ \E i \in 1..Len(carManager[mode].cars) :
          LET car == carManager[mode].cars[i]
          IN  /\ car.state = "approaching"
              /\ car.speed > (CarSpeedInit + SpeedInit) \div 2
              /\ car.u = Connects(car.roadId)[1].uTarget
    /\ statistics[mode].totalCarsPassed = 0

====
